---- MODULE Spec2Model ----
(***************************************************************************)
(* A model of the Tendermint machine of substrate/tendermint/machine:      *)
(* the message log, the per-height block state, the round state, and the   *)
(* run loop with its four event sources (step channel, own queue,          *)
(* timeouts, inbound messages).                                            *)
(***************************************************************************)
EXTENDS Integers, Sequences, FiniteSets, TLC

(***************************************************************************)
(* Bounds of the model.                                                    *)
(***************************************************************************)
\* Rounds 0..MaxRound of a height are explored.
MaxRound == 2
\* Heights 1..MaxHeight are run; the state after the reset into
\* MaxHeight + 1 is reached and then left alone.
MaxHeight == 2
\* Inbound messages the environment hands to one run.
MaxInbound == 4
\* Commits the environment hands to the step channel in one run.
MaxCommits == 1
\* The run of two machines: the heights they run, the messages the Byzantine
\* validator hands them, and the last round a precommit timeout leads to.
NetHeights == 1
NetInbound == 2
NetRounds == 1
\* Inbound messages the environment hands to the run of an observer and a
\* validator.
ObsInbound == 3

(***************************************************************************)
(* Program constants.                                                      *)
(***************************************************************************)
\* Network::BLOCK_TIME, in seconds (the host chooses it).
BLOCK_TIME == 3
\* A limb of a u64: 16 bits.
Limb == 65536
\* Units of weight a validator holds where the arithmetic of the weights is
\* checked.
MaxUnits == 3

VARIABLES
  weights,    \* TendermintMachine.weights: validator id -> weight
  queue,      \* TendermintMachine.queue, per node
  msg_recv,   \* the message channel, per node: messages sent and not yet received
  step_recv,  \* the step channel, per node
  block,      \* TendermintMachine.block (BlockData), per node
  network,    \* what each node has called on Network: slash, broadcast, add_block
  alive,      \* per node: "running", "exited" or "panicked"
  last_end,   \* per node: the canonical end time of the previous height
  env,        \* the environment: its pool of messages and its budget
  last        \* per node: what the last iteration of run did

vars == <<weights, queue, msg_recv, step_recv, block, network, alive, last_end, env, last>>

(***************************************************************************)
(* Option, maps.                                                           *)
(***************************************************************************)
NoRound == -1
NoValidator == 0
NoId == <<"nil">>
NoBlock == "none"
EmptyMap == [x \in {} |-> 0]

Insert(f, k, v) == [x \in DOMAIN f \cup {k} |-> IF x = k THEN v ELSE f[x]]

RECURSIVE SumOver(_, _)
SumOver(f, S) ==
  IF S = {} THEN 0
  ELSE LET x == CHOOSE y \in S : TRUE IN f[x] + SumOver(f, S \ {x})

(***************************************************************************)
(* ext.rs: blocks, signatures, weights.                                    *)
(***************************************************************************)
\* Block::id
id(b) == <<"id", b>>

\* commit_msg(end_time, id): the u64's 8 bytes followed by the id.
commit_msg(end_time, i) == <<end_time, i>>

\* Signer::sign and SignatureScheme::verify: a signature is the signer and
\* the bytes signed, and verifies for exactly those.
sign(v, bytes) == [by |-> v, bytes |-> bytes]
verify(v, bytes, sig) == sig = sign(v, bytes)
NoSig == [by |-> NoValidator, bytes |-> <<>>]

Validators == DOMAIN weights
total_weight == SumOver(weights, Validators)
weight(v) == weights[v]
\* A threshold of the whole weight.
threshold_all == total_weight

threshold == ((total_weight * 2) \div 3) + 1
fault_thresold == (total_weight - threshold) + 1

\* Weights::proposer: weighted round robin. Validator v holds weight(v)
\* consecutive slots, in id order; slot (number - 1 + round) mod total.
SlotsBefore(v) == SumOver(weights, {u \in Validators : u < v})
proposer(number, r) ==
  LET slot == (number - 1 + r) % total_weight
  IN CHOOSE v \in Validators : SlotsBefore(v) <= slot /\ slot < SlotsBefore(v) + weight(v)

(***************************************************************************)
(* lib.rs: Step, Data, Message.                                            *)
(***************************************************************************)
Steps == {"Propose", "Prevote", "Precommit"}
StepOrd(s) == CASE s = "Propose" -> 0 [] s = "Prevote" -> 1 [] s = "Precommit" -> 2

Proposal(vr, b) == [step |-> "Propose", vr |-> vr, block |-> b]
Prevote(i) == [step |-> "Prevote", id |-> i]
Precommit(i, sig) == [step |-> "Precommit", id |-> i, sig |-> sig]

\* An equality of Data by step and block id alone.
DataEqById(a, b) ==
  CASE a.step = "Propose" /\ b.step = "Propose" -> a.block = b.block
    [] a.step = "Prevote" /\ b.step = "Prevote" -> a.id = b.id
    [] a.step = "Precommit" /\ b.step = "Precommit" -> a.id = b.id
    [] OTHER -> FALSE

\* impl PartialEq for Data
DataEq(a, b) ==
  CASE a.step = "Propose" /\ b.step = "Propose" -> (a.vr = b.vr) /\ (a.block = b.block)
    [] a.step = "Prevote" /\ b.step = "Prevote" -> a.id = b.id
    [] a.step = "Precommit" /\ b.step = "Precommit" -> a.id = b.id
    [] OTHER -> FALSE

Message(sender, number, r, data) ==
  [sender |-> sender, number |-> number, round |-> r, data |-> data]

(***************************************************************************)
(* Results of message() and log(): Result<_, TendermintError>, and a       *)
(* panic (a failed index, unwrap or assertion), which ends run().          *)
(***************************************************************************)
\* A Malicious also carries which check raised it (the code keeps no reason).
Ok(x) == [t |-> "Ok", v |-> x, why |-> ""]
Malicious(v, why) == [t |-> "Malicious", v |-> v, why |-> why]
\* Ok(None), returned because log() said the message was already held
Replay == [t |-> "Ok", v |-> NoBlock, why |-> "replay"]
Temporal == [t |-> "Temporal", v |-> NoValidator, why |-> ""]
Panic(why) == [t |-> "Panic", v |-> NoValidator, why |-> why]

(***************************************************************************)
(* message_log.rs                                                          *)
(***************************************************************************)
\* MessageLog::new
MessageLogNew == [precommitted |-> EmptyMap, log |-> EmptyMap]

IsPrecommitSome(data) == data.step = "Precommit" /\ data.id # NoId

\* A log that lets a validator's later message of a round and step replace
\* the one it holds.
log_last_wins(l, msg) ==
  LET r0 == IF msg.round \in DOMAIN l.log THEN l.log[msg.round] ELSE EmptyMap
      msgs == IF msg.sender \in DOMAIN r0 THEN r0[msg.sender] ELSE EmptyMap
  IN [log |-> [l EXCEPT !.log = Insert(l.log, msg.round,
                                  Insert(r0, msg.sender, Insert(msgs, msg.data.step, msg.data)))],
      res |-> Ok(msg.data.step \notin DOMAIN msgs \/ ~DataEq(msgs[msg.data.step], msg.data))]

\* A log that takes a message it already holds for a new one.
log_again(l, msg) ==
  LET r0 == IF msg.round \in DOMAIN l.log THEN l.log[msg.round] ELSE EmptyMap
      msgs == IF msg.sender \in DOMAIN r0 THEN r0[msg.sender] ELSE EmptyMap
  IN IF msg.data.step \in DOMAIN msgs /\ ~DataEq(msgs[msg.data.step], msg.data)
     THEN [log |-> l, res |-> Malicious(msg.sender, "equivocation")]
     ELSE [log |-> [precommitted |->
                      IF IsPrecommitSome(msg.data)
                      THEN Insert(l.precommitted, msg.sender,
                                  [id |-> msg.data.id, sig |-> msg.data.sig])
                      ELSE l.precommitted,
                    log |-> Insert(l.log, msg.round,
                                   Insert(r0, msg.sender, Insert(msgs, msg.data.step, msg.data)))],
           res |-> Ok(TRUE)]

\* A log that checks a precommit against the sender's messages of the same
\* round only, not against what the sender precommitted in other rounds.
log_round_only(l, msg) ==
  LET r0 == IF msg.round \in DOMAIN l.log THEN l.log[msg.round] ELSE EmptyMap
      msgs == IF msg.sender \in DOMAIN r0 THEN r0[msg.sender] ELSE EmptyMap
      entered == [l EXCEPT !.log = Insert(l.log, msg.round, Insert(r0, msg.sender, msgs))]
      step == msg.data.step
  IN IF step \in DOMAIN msgs
     THEN IF ~DataEq(msgs[step], msg.data)
          THEN [log |-> entered, res |-> Malicious(msg.sender, "equivocation")]
          ELSE [log |-> entered, res |-> Ok(FALSE)]
     ELSE [log |->
             [precommitted |->
                IF IsPrecommitSome(msg.data)
                THEN Insert(l.precommitted, msg.sender,
                            [id |-> msg.data.id, sig |-> msg.data.sig])
                ELSE l.precommitted,
              log |-> Insert(l.log, msg.round,
                             Insert(r0, msg.sender, Insert(msgs, step, msg.data)))],
           res |-> Ok(TRUE)]

\* MessageLog::log: the log after the call and what the call returned.
log(l, msg) ==
  LET r0 == IF msg.round \in DOMAIN l.log THEN l.log[msg.round] ELSE EmptyMap
      msgs == IF msg.sender \in DOMAIN r0 THEN r0[msg.sender] ELSE EmptyMap
      \* entry(..).or_insert_with(HashMap::new), twice
      entered == [l EXCEPT !.log = Insert(l.log, msg.round, Insert(r0, msg.sender, msgs))]
      step == msg.data.step
  IN IF step \in DOMAIN msgs
     THEN IF ~DataEq(msgs[step], msg.data)
          THEN [log |-> entered, res |-> Malicious(msg.sender, "equivocation")]
          ELSE [log |-> entered, res |-> Ok(FALSE)]
     ELSE IF /\ IsPrecommitSome(msg.data)
             /\ msg.sender \in DOMAIN l.precommitted
             /\ msg.data.id # l.precommitted[msg.sender].id
          THEN [log |-> entered, res |-> Malicious(msg.sender, "precommitted")]
          ELSE [log |->
                  [precommitted |->
                     IF IsPrecommitSome(msg.data)
                     THEN Insert(l.precommitted, msg.sender,
                                 [id |-> msg.data.id, sig |-> msg.data.sig])
                     ELSE l.precommitted,
                   log |-> Insert(l.log, msg.round,
                                  Insert(r0, msg.sender, Insert(msgs, step, msg.data)))],
                res |-> Ok(TRUE)]

\* MessageLog::message_instances; self.log[&round] panics on a round with no entry.
HasRound(l, r) == r \in DOMAIN l.log
Participants(l, r, step) == {p \in DOMAIN l.log[r] : step \in DOMAIN l.log[r][p]}
message_instances(l, r, data) ==
  LET ps == Participants(l, r, data.step)
  IN <<SumOver(weights, ps),
       SumOver(weights, {p \in ps : DataEq(data, l.log[r][p][data.step])})>>

\* MessageLog::round_participation
round_participation(l, r) ==
  IF r \in DOMAIN l.log THEN SumOver(weights, DOMAIN l.log[r]) ELSE 0

\* A has_consensus that counts every vote of the step, whatever it is for.
has_consensus_of_any(l, r, data) == message_instances(l, r, data)[1] >= threshold

\* MessageLog::has_consensus
has_consensus(l, r, data) == message_instances(l, r, data)[2] >= threshold

\* MessageLog::get (None is NoData)
NoData == [step |-> "None"]
get(l, r, sender, step) ==
  IF r \in DOMAIN l.log /\ sender \in DOMAIN l.log[r] /\ step \in DOMAIN l.log[r][sender]
  THEN l.log[r][sender][step]
  ELSE NoData

(***************************************************************************)
(* round.rs (RoundData) and time.rs (CanonicalInstant): only the canonical *)
(* seconds of an instant are kept; a timeout is armed or not.              *)
(***************************************************************************)
\* RoundData::new
RoundDataNew(number, start_time) ==
  [number |-> number, start_time |-> start_time, step |-> "Propose", timeouts |-> {}]

\* RoundData::end_time
RoundEndTime(rd) == rd.start_time + BLOCK_TIME + 2 * (rd.number + 1)

\* RoundData::set_timeout: timeouts.entry(step).or_insert(..)
set_timeout(m, step) == [m EXCEPT !.block.round.timeouts = @ \cup {step}]

\* RoundData::timeout_future resolves to the pending timeout with the earliest
\* deadline; within a round the deadlines are in step order.
EarliestTimeout(rd) ==
  CHOOSE s \in rd.timeouts : \A t \in rd.timeouts : StepOrd(s) <= StepOrd(t)

\* MessageLog::has_participation
has_participation(l, r, step) == SumOver(weights, Participants(l, r, step)) >= threshold

(***************************************************************************)
(* lib.rs: TendermintMachine. A machine m is [block, queue, network,       *)
(* last_end, panic]: the BlockData, the outgoing queue, the calls made on  *)
(* Network, the end time the height started from, and the panic message    *)
(* once a step has panicked ("" before).                                   *)
(***************************************************************************)
NoLocked == [round |-> NoRound, id |-> NoId]
NoValid == [round |-> NoRound, block |-> NoBlock]
NoRoundData == [number |-> NoRound, start_time |-> 0, step |-> "Propose", timeouts |-> {}]

panic(m, why) == IF m.panic = "" THEN [m EXCEPT !.panic = why] ELSE m

\* A broadcast that hands the message to the network at once, and queues it
\* for the node's own message() afterwards.
broadcast_unprocessed(m, data) ==
  IF m.block.validator_id # NoValidator
  THEN [m EXCEPT !.block.round.step = data.step,
                 !.network.broadcast = @ \cup {Message(m.block.validator_id, m.block.number,
                                                       m.block.round.number, data)},
                 !.queue = Append(@, Message(m.block.validator_id, m.block.number,
                                             m.block.round.number, data))]
  ELSE m

\* A broadcast that queues the message of a node with no validator id too.
broadcast_observer(m, data) ==
  [m EXCEPT !.block.round.step = data.step,
            !.queue = Append(@, Message(m.block.validator_id, m.block.number,
                                        m.block.round.number, data))]

\* TendermintMachine::broadcast
broadcast(m, data) ==
  IF m.block.validator_id # NoValidator
  THEN [m EXCEPT !.block.round.step = data.step,
                 !.queue = Append(@, Message(m.block.validator_id, m.block.number,
                                             m.block.round.number, data))]
  ELSE m

\* A populate_end_time that gives every round it fills the span of the round
\* the machine is in.
RECURSIVE PopulateStale(_, _, _)
PopulateStale(m, r, upto) ==
  IF r >= upto \/ m.panic # "" THEN m
  ELSE IF (r - 1) \notin DOMAIN m.block.end_time
       THEN panic(m, "end_time index")
       ELSE PopulateStale(
              [m EXCEPT !.block.end_time =
                 Insert(@, r, RoundEndTime(RoundDataNew(m.block.round.number,
                                                        m.block.end_time[r - 1])))],
              r + 1, upto)
populate_end_time_stale(m, r) == PopulateStale(m, m.block.round.number + 1, r)

\* TendermintMachine::populate_end_time: for r in (round().number + 1) .. round
RECURSIVE PopulateFrom(_, _, _)
PopulateFrom(m, r, upto) ==
  IF r >= upto \/ m.panic # "" THEN m
  ELSE IF (r - 1) \notin DOMAIN m.block.end_time
       THEN panic(m, "end_time index")
       ELSE PopulateFrom(
              [m EXCEPT !.block.end_time =
                 Insert(@, r, RoundEndTime(RoundDataNew(r, m.block.end_time[r - 1])))],
              r + 1, upto)
populate_end_time(m, r) == PopulateFrom(m, m.block.round.number + 1, r)

\* A round() that starts every round with no locked and no valid block.
EnterRoundUnlocked(m, rd) ==
  [m EXCEPT !.block.round = rd,
            !.block.end_time = Insert(@, rd.number, RoundEndTime(rd)),
            !.block.locked = NoLocked,
            !.block.valid = NoValid]

\* 11-13 (lines 185-189): the new RoundData and its end time
EnterRound(m, rd) ==
  [m EXCEPT !.block.round = rd,
            !.block.end_time = Insert(@, rd.number, RoundEndTime(rd))]

\* TendermintMachine::round, after populate_end_time: [m, ret], ret is whether
\* we were the proposer. time is NoRound for None.
RoundStart(m, r, time) ==
  IF time = NoRound /\ (r - 1) \notin DOMAIN m.block.end_time
  THEN [m |-> panic(m, "end_time index"), ret |-> FALSE]
  ELSE
    LET rd == RoundDataNew(r, IF time # NoRound THEN time ELSE m.block.end_time[r - 1])
        m1 == EnterRound(m, rd)
    IN IF proposer(m1.block.number, r) = m1.block.validator_id
       THEN [m |-> broadcast(m1,
                     IF m1.block.valid # NoValid
                     THEN Proposal(m1.block.valid.round, m1.block.valid.block)
                     ELSE Proposal(NoRound, m1.block.proposal)),
             ret |-> TRUE]
       ELSE [m |-> set_timeout(m1, "Propose"), ret |-> FALSE]

round(m, r, time) ==
  LET m1 == IF r # 0 THEN populate_end_time(m, r) ELSE m
  IN IF m1.panic # "" THEN [m |-> m1, ret |-> FALSE] ELSE RoundStart(m1, r, time)

\* TendermintMachine::reset
reset(m, end_round, proposal) ==
  LET m1 == populate_end_time(m, end_round)
  IN IF m1.panic # "" THEN m1
     ELSE IF end_round \notin DOMAIN m1.block.end_time THEN panic(m1, "end_time index")
     ELSE
       LET round_end == m1.block.end_time[end_round]
           m2 == [m1 EXCEPT
                    !.queue = SelectSeq(@, LAMBDA msg : msg.number = m1.block.number),
                    !.last_end = round_end,
                    !.block = [number |-> m1.block.number + 1,
                               validator_id |-> m1.block.validator_id,
                               proposal |-> proposal,
                               log |-> MessageLogNew,
                               slashes |-> {},
                               end_time |-> EmptyMap,
                               round |-> NoRoundData,
                               locked |-> NoLocked,
                               valid |-> NoValid]]
       IN round(m2, 0, round_end).m

\* TendermintMachine::reset_by_commit: the first loop, the second loop, reset.
RECURSIVE CommitRoundUp(_, _, _)
CommitRoundUp(m, r, commit) ==
  IF m.panic # "" THEN [m |-> m, round |-> r]
  ELSE IF r \notin DOMAIN m.block.end_time THEN [m |-> panic(m, "end_time index"), round |-> r]
  ELSE IF m.block.end_time[r] < commit.end_time
       THEN CommitRoundUp(populate_end_time(m, r + 1), r + 1, commit)
       ELSE [m |-> m, round |-> r]

RECURSIVE CommitRoundDown(_, _, _)
CommitRoundDown(m, r, commit) ==
  IF m.panic # "" THEN [m |-> m, round |-> r]
  ELSE IF r \notin DOMAIN m.block.end_time THEN [m |-> panic(m, "end_time index"), round |-> r]
  ELSE IF m.block.end_time[r] > commit.end_time
       THEN IF r = 0
            THEN [m |-> panic(m, "commit isn't for this machine's next block"), round |-> r]
            ELSE CommitRoundDown(m, r - 1, commit)
       ELSE [m |-> m, round |-> r]

\* A reset_by_commit that ends the height at the round the machine is in,
\* whatever round the commit is of.
reset_by_commit_current(m, commit, proposal) == reset(m, m.block.round.number, proposal)

reset_by_commit(m, commit, proposal) ==
  LET up == CommitRoundUp(m, m.block.round.number, commit)
      down == CommitRoundDown(up.m, up.round, commit)
  IN IF down.m.panic # "" THEN down.m
     ELSE IF down.m.block.end_time[down.round] # commit.end_time
          THEN panic(down.m, "debug_assert_eq end_time")
          ELSE reset(down.m, down.round, proposal)

\* Network::slash, as the machine sees it: one more call for (height, validator).
NetworkSlash(net, number, v) ==
  [net EXCEPT !.slash =
     Insert(@, <<number, v>>, IF <<number, v>> \in DOMAIN @ THEN @[<<number, v>>] + 1 ELSE 1)]

\* A slash that reports the validator to the network on every call.
slash_always(m, validator) ==
  [m EXCEPT !.block.slashes = @ \cup {validator},
            !.network = NetworkSlash(@, m.block.number, validator)]

\* TendermintMachine::slash. network.again notes a slash() of a validator
\* the height has already slashed.
slash(m, validator) ==
  IF validator \notin m.block.slashes
  THEN [m EXCEPT !.block.slashes = @ \cup {validator},
                 !.network = NetworkSlash(@, m.block.number, validator)]
  ELSE [m EXCEPT !.network.again = @ \cup {<<m.block.number, validator>>}]

RECURSIVE SlashAll(_, _)
SlashAll(m, vs) ==
  IF vs = {} THEN m
  ELSE LET v == CHOOSE x \in vs : TRUE IN SlashAll(slash(m, v), vs \ {v})

\* TendermintMachine::verify_precommit_signature: TRUE for Ok(()).
verify_precommit_signature(b, sender, r, data) ==
  IF IsPrecommitSome(data) /\ r \in DOMAIN b.end_time
  THEN verify(sender, commit_msg(b.end_time[r], data.id), data.sig)
  ELSE TRUE

(***************************************************************************)
(* Network::validate: the host's verdict on a block, fixed per block.      *)
(***************************************************************************)
validate(b) ==
  CASE b = "F" -> "Fatal"
    [] b = "T" -> "Temporal"
    [] OTHER -> "Ok"

(***************************************************************************)
(* TendermintMachine::message, in the order of its code. Each part         *)
(* returns [m, res]: the machine after the call and the value returned.    *)
(***************************************************************************)
\* Lines 36-43 locking and precommitting at any step past Propose.
MessageValidLockAlways(m, msg, prop) ==
  LET b == m.block
      cur == b.round.number
      prop_id == id(prop.block)
  IN IF (b.valid = NoValid \/ b.valid.round # cur) /\ HasRound(b.log, cur)
        /\ has_consensus(b.log, cur, Prevote(prop_id)) /\ validate(prop.block) # "Fatal"
     THEN [m |-> broadcast(
                   [m EXCEPT !.block.valid = [round |-> cur, block |-> prop.block],
                             !.block.locked = [round |-> cur, id |-> prop_id]],
                   Precommit(prop_id, sign(b.validator_id, commit_msg(b.end_time[cur], prop_id)))),
           res |-> Ok(NoBlock)]
     ELSE [m |-> m, res |-> Ok(NoBlock)]

\* Lines 36-43 locking and precommitting at step Prevote without setting
\* valid.
MessageValidLockOnly(m, msg, prop) ==
  LET b == m.block
      cur == b.round.number
      prop_id == id(prop.block)
  IN IF (b.valid = NoValid \/ b.valid.round # cur) /\ HasRound(b.log, cur)
        /\ has_consensus(b.log, cur, Prevote(prop_id)) /\ validate(prop.block) # "Fatal"
        /\ b.round.step = "Prevote" /\ cur \in DOMAIN b.end_time
     THEN [m |-> broadcast(
                   [m EXCEPT !.block.locked = [round |-> cur, id |-> prop_id]],
                   Precommit(prop_id, sign(b.validator_id, commit_msg(b.end_time[cur], prop_id)))),
           res |-> Ok(NoBlock)]
     ELSE [m |-> m, res |-> Ok(NoBlock)]

\* 36-43: set valid, lock, precommit (lines 598-634)
MessageValid(m, msg, prop) ==
  LET b == m.block
      cur == b.round.number
      prop_id == id(prop.block)
  IN IF b.valid = NoValid \/ b.valid.round # cur
     THEN IF ~HasRound(b.log, cur)
          THEN [m |-> panic(m, "log index"), res |-> Panic("log index")]
          ELSE IF has_consensus(b.log, cur, Prevote(prop_id))
          THEN IF validate(prop.block) = "Fatal"
               THEN [m |-> m, res |-> Malicious(proposer(b.number, cur), "fatal")]
               ELSE LET m1 == [m EXCEPT !.block.valid = [round |-> cur, block |-> prop.block]]
                    IN IF b.round.step = "Prevote"
                       THEN IF cur \notin DOMAIN b.end_time
                            THEN [m |-> panic(m1, "end_time index"), res |-> Panic("end_time index")]
                            ELSE [m |-> broadcast(
                                     [m1 EXCEPT !.block.locked = [round |-> cur, id |-> prop_id]],
                                     Precommit(prop_id,
                                       sign(b.validator_id, commit_msg(b.end_time[cur], prop_id)))),
                                  res |-> Ok(NoBlock)]
                       ELSE [m |-> m1, res |-> Ok(NoBlock)]
          ELSE [m |-> m, res |-> Ok(NoBlock)]
     ELSE [m |-> m, res |-> Ok(NoBlock)]

\* A first vote of the round that is nil whatever the proposal.
MessageProposeNil(m, msg, prop) ==
  [m |-> broadcast(m, Prevote(NoId)), res |-> Ok(NoBlock)]

\* A first vote of the round that takes a valid round at or above the
\* current round like one that has no prevote quorum yet.
MessageProposeAnyValidRound(m, msg, prop) ==
  LET b == m.block
      cur == b.round.number
      v == validate(prop.block)
      err == IF v = "Fatal" THEN Malicious(proposer(b.number, cur), "fatal") ELSE Ok(NoBlock)
      raw_vote == IF v = "Ok" THEN id(prop.block) ELSE NoId
      locked == IF b.locked = NoLocked THEN TRUE ELSE b.locked.id = id(prop.block)
      vote == IF locked THEN raw_vote ELSE NoId
  IN IF prop.vr # NoRound
     THEN IF HasRound(b.log, prop.vr) /\ has_consensus(b.log, prop.vr, Prevote(id(prop.block)))
          THEN [m |-> broadcast(m, Prevote(raw_vote)), res |-> err]
          ELSE [m |-> m, res |-> Ok(NoBlock)]
     ELSE [m |-> broadcast(m, Prevote(vote)), res |-> err]

\* A first vote of the round that takes no account of the lock.
MessageProposeUnlocked(m, msg, prop) ==
  LET b == m.block
      cur == b.round.number
      v == validate(prop.block)
      err == IF v = "Fatal" THEN Malicious(proposer(b.number, cur), "fatal") ELSE Ok(NoBlock)
      raw_vote == IF v = "Ok" THEN id(prop.block) ELSE NoId
  IN IF prop.vr # NoRound
     THEN IF prop.vr >= cur
          THEN [m |-> m, res |-> Malicious(msg.sender, "valid_round")]
          ELSE IF ~HasRound(b.log, prop.vr)
          THEN [m |-> panic(m, "log index"), res |-> Panic("log index")]
          ELSE IF has_consensus(b.log, prop.vr, Prevote(id(prop.block)))
          THEN [m |-> broadcast(m, Prevote(raw_vote)), res |-> err]
          ELSE [m |-> m, res |-> Ok(NoBlock)]
     ELSE [m |-> broadcast(m, Prevote(raw_vote)), res |-> err]

\* 22-33: the first vote of the round (lines 561-597)
MessagePropose(m, msg, prop) ==
  LET b == m.block
      cur == b.round.number
      v == validate(prop.block)
      valid == v = "Ok"
      err == IF v = "Fatal" THEN Malicious(proposer(b.number, cur), "fatal") ELSE Ok(NoBlock)
      raw_vote == IF valid THEN id(prop.block) ELSE NoId
      locked == IF b.locked = NoLocked THEN TRUE ELSE b.locked.id = id(prop.block)
      vote == IF locked THEN raw_vote ELSE NoId
  IN IF prop.vr # NoRound
     THEN IF prop.vr >= cur
          THEN [m |-> m, res |-> Malicious(msg.sender, "valid_round")]
          ELSE IF ~HasRound(b.log, prop.vr)
          THEN [m |-> panic(m, "log index"), res |-> Panic("log index")]
          ELSE IF has_consensus(b.log, prop.vr, Prevote(id(prop.block)))
          THEN LET vote2 == IF b.locked # NoLocked /\ vote = NoId /\ b.locked.round <= prop.vr
                            THEN raw_vote
                            ELSE vote
               IN [m |-> broadcast(m, Prevote(vote2)), res |-> err]
          ELSE [m |-> m, res |-> Ok(NoBlock)]
     ELSE [m |-> broadcast(m, Prevote(vote)), res |-> err]

\* lines 556-637
MessageProposal(m, msg) ==
  LET b == m.block
      prop == get(b.log, b.round.number, proposer(b.number, b.round.number), "Propose")
  IN IF prop # NoData
     THEN IF b.round.step = "Propose"
          THEN MessagePropose(m, msg, prop)
          ELSE MessageValid(m, msg, prop)
     ELSE [m |-> m, res |-> Ok(NoBlock)]

\* 47-48 (lines 550-554)
MessagePrecommitTimeout(m, msg) ==
  LET b == m.block
  IN IF msg.data.step = "Precommit"
     THEN IF ~HasRound(b.log, b.round.number)
          THEN [m |-> panic(m, "log index"), res |-> Panic("log index")]
          ELSE MessageProposal(
                 IF has_participation(b.log, b.round.number, "Precommit")
                 THEN set_timeout(m, "Precommit")
                 ELSE m,
                 msg)
     ELSE MessageProposal(m, msg)

\* Lines 34-35 and 44-46 run only for a nil prevote.
MessagePrevotesOnNil(m, msg) ==
  LET b == m.block
  IN IF b.round.step = "Prevote" /\ msg.data.step = "Prevote" /\ msg.data.id = NoId
     THEN IF ~HasRound(b.log, b.round.number)
          THEN [m |-> panic(m, "log index"), res |-> Panic("log index")]
          ELSE LET pw == message_instances(b.log, b.round.number, Prevote(NoId))
                   m1 == IF pw[1] >= threshold THEN set_timeout(m, "Prevote") ELSE m
               IN IF pw[2] >= threshold
                  THEN [m |-> broadcast(m1, Precommit(NoId, NoSig)), res |-> Ok(NoBlock)]
                  ELSE MessagePrecommitTimeout(m1, msg)
     ELSE MessagePrecommitTimeout(m, msg)

\* 34-35 and 44-46 (lines 534-547)
MessagePrevotes(m, msg) ==
  LET b == m.block
  IN IF b.round.step = "Prevote" /\ msg.data.step = "Prevote"
     THEN IF ~HasRound(b.log, b.round.number)
          THEN [m |-> panic(m, "log index"), res |-> Panic("log index")]
          ELSE LET pw == message_instances(b.log, b.round.number, Prevote(NoId))
                   m1 == IF pw[1] >= threshold THEN set_timeout(m, "Prevote") ELSE m
               IN IF pw[2] >= threshold
                  THEN [m |-> broadcast(m1, Precommit(NoId, NoSig)), res |-> Ok(NoBlock)]
                  ELSE MessagePrecommitTimeout(m1, msg)
     ELSE MessagePrecommitTimeout(m, msg)

\* A jump as soon as the participation reaches fault_thresold.
JumpReadyAtFault(l, r) == round_participation(l, r) >= fault_thresold

\* Whether round r is far enough ahead in participation to jump to (line 510)
JumpReady(l, r) == round_participation(l, r) > fault_thresold

\* 55-56: the jump (lines 504-529)
MessageJump(m, msg) ==
  LET b == m.block
  IN IF msg.round < b.round.number
     THEN [m |-> m, res |-> Ok(NoBlock)]
     ELSE IF msg.round > b.round.number
     THEN IF JumpReady(b.log, msg.round)
          THEN LET round_msgs == b.log.log[msg.round]
                   bad == {v \in DOMAIN round_msgs :
                             /\ "Precommit" \in DOMAIN round_msgs[v]
                             /\ ~verify_precommit_signature(b, v, msg.round,
                                                            round_msgs[v]["Precommit"])}
                   r == round(SlashAll(m, bad), msg.round, NoRound)
               IN IF r.m.panic # "" THEN [m |-> r.m, res |-> Panic(r.m.panic)]
                  ELSE IF r.ret THEN [m |-> r.m, res |-> Ok(NoBlock)]
                  ELSE MessagePrevotes(r.m, msg)
          ELSE [m |-> m, res |-> Ok(NoBlock)]
     ELSE MessagePrevotes(m, msg)

\* 49-52: the finalizer (lines 483-500)
MessageFinalizer(m, msg) ==
  LET b == m.block
      prop == get(b.log, msg.round, proposer(b.number, msg.round), "Propose")
  IN IF /\ msg.data.step \in {"Propose", "Precommit"}
        /\ prop # NoData
        /\ has_consensus(b.log, msg.round, Precommit(id(prop.block), NoSig))
     THEN [m |-> m, res |-> Ok(prop.block)]
     ELSE MessageJump(m, msg)

\* A message() that lets any validator propose.
message_any_proposer(m, msg) ==
  IF msg.number # m.block.number
  THEN [m |-> m, res |-> Temporal]
  ELSE IF ~verify_precommit_signature(m.block, msg.sender, msg.round, msg.data)
  THEN [m |-> m, res |-> Malicious(msg.sender, "signature")]
  ELSE LET lg == log(m.block.log, msg)
           m1 == [m EXCEPT !.block.log = lg.log]
       IN IF lg.res.t = "Malicious" THEN [m |-> m1, res |-> lg.res]
          ELSE IF ~lg.res.v THEN [m |-> m1, res |-> Replay]
          ELSE MessageFinalizer(m1, msg)

\* A message() that takes messages of any height for its own.
message_any_height(m, msg) ==
  IF ~verify_precommit_signature(m.block, msg.sender, msg.round, msg.data)
  THEN [m |-> m, res |-> Malicious(msg.sender, "signature")]
  ELSE IF msg.data.step = "Propose" /\ msg.sender # proposer(msg.number, msg.round)
  THEN [m |-> m, res |-> Malicious(msg.sender, "proposer")]
  ELSE LET lg == log(m.block.log, msg)
           m1 == [m EXCEPT !.block.log = lg.log]
       IN IF lg.res.t = "Malicious" THEN [m |-> m1, res |-> lg.res]
          ELSE IF ~lg.res.v THEN [m |-> m1, res |-> Replay]
          ELSE MessageFinalizer(m1, msg)

\* lines 459-479
message(m, msg) ==
  IF msg.number # m.block.number
  THEN [m |-> m, res |-> Temporal]
  ELSE IF ~verify_precommit_signature(m.block, msg.sender, msg.round, msg.data)
  THEN [m |-> m, res |-> Malicious(msg.sender, "signature")]
  ELSE IF msg.data.step = "Propose" /\ msg.sender # proposer(msg.number, msg.round)
  THEN [m |-> m, res |-> Malicious(msg.sender, "proposer")]
  ELSE LET lg == log(m.block.log, msg)
           m1 == [m EXCEPT !.block.log = lg.log]
       IN IF lg.res.t = "Malicious" THEN [m |-> m1, res |-> lg.res]
          ELSE IF ~lg.res.v THEN [m |-> m1, res |-> Replay]
          ELSE MessageFinalizer(m1, msg)

(***************************************************************************)
(* Commits (ext.rs Commit) and Network::verify_commit. The aggregate of    *)
(* the signatures is kept as the signature of each listed validator.       *)
(***************************************************************************)
Commit(end_time, validators, sigs) ==
  [end_time |-> end_time, validators |-> validators, signature |-> sigs]

verify_commit(i, commit) ==
  /\ \A v \in commit.validators :
       verify(v, commit_msg(commit.end_time, i), commit.signature[v])
  /\ SumOver(weights, commit.validators) >= threshold

\* The commit run() assembles for a block (lines 402-419)
AssembleCommit(b, msg, blk) ==
  LET vs == {k \in DOMAIN b.log.precommitted : b.log.precommitted[k].id = id(blk)}
  IN Commit(b.end_time[msg.round], vs, [v \in vs |-> b.log.precommitted[v].sig])

(***************************************************************************)
(* TendermintMachine::run: what follows the select (lines 394-435), for    *)
(* message msg, `own` when it came from the queue. debug is whether        *)
(* debug assertions are compiled in; next is what add_block returns.       *)
(***************************************************************************)
NetworkBroadcast(m, msg) == [m EXCEPT !.network.broadcast = @ \cup {msg}]

Finalize(m, msg, blk, debug, next) ==
  IF msg.round \notin DOMAIN m.block.end_time
  THEN panic(m, "end_time index")
  ELSE LET commit == AssembleCommit(m.block, msg, blk)
       IN IF debug /\ ~verify_commit(id(blk), commit)
          THEN panic(m, "debug_assert verify_commit")
          ELSE reset([m EXCEPT !.network.blocks =
                        Append(@, [number |-> m.block.number, block |-> blk, commit |-> commit])],
                     msg.round, next)

\* What follows message()'s return r.
AfterMessage(r, msg, own, debug, next) ==
  LET m1 == IF r.res.t = "Panic" THEN panic(r.m, r.res.why)
            ELSE IF r.res.t # "Ok" /\ own THEN panic(r.m, "honest node had invalid behavior")
            ELSE IF r.res.t = "Ok" /\ r.res.v # NoBlock THEN Finalize(r.m, msg, r.res.v, debug, next)
            ELSE IF r.res.t = "Malicious" THEN slash(r.m, r.res.v)
            ELSE r.m
  IN IF own /\ m1.panic = "" THEN NetworkBroadcast(m1, msg) ELSE m1

Finalizes(r) == r.res.t = "Ok" /\ r.res.v # NoBlock

(***************************************************************************)
(* The state, per node, and the actions: one per arm of run()'s select.    *)
(***************************************************************************)
\* The machines of a run are numbered 1, 2; Nodes are those that exist.
Machines == {1, 2}
Nodes == DOMAIN block
\* The proposals the host hands a machine for its next height.
Proposals == {"X"}

M(n) ==
  [block |-> block[n], queue |-> queue[n], network |-> network[n],
   last_end |-> last_end[n], panic |-> ""]

\* BlockData and the first round() call of TendermintMachine::new
new(validator_id, last_number, last_time, proposal) ==
  round([block |-> [number |-> last_number + 1,
                    validator_id |-> validator_id,
                    proposal |-> proposal,
                    log |-> MessageLogNew,
                    slashes |-> {},
                    end_time |-> EmptyMap,
                    round |-> NoRoundData,
                    locked |-> NoLocked,
                    valid |-> NoValid],
         queue |-> <<>>,
         network |-> [slash |-> EmptyMap, again |-> {}, broadcast |-> {}, blocks |-> <<>>],
         last_end |-> last_time,
         panic |-> ""],
        0, last_time).m

Running(n) == n \in Nodes /\ alive[n] = "running" /\ block[n].number <= env.heights

\* The machine after an iteration; what it broadcast reaches the other nodes.
Store(n, m, ev) ==
  /\ block' = [block EXCEPT ![n] = m.block]
  /\ queue' = [queue EXCEPT ![n] = m.queue]
  /\ network' = [network EXCEPT ![n] = m.network]
  /\ last_end' = [last_end EXCEPT ![n] = m.last_end]
  /\ alive' = [alive EXCEPT ![n] = IF m.panic # "" THEN "panicked" ELSE @]
  /\ last' = [last EXCEPT ![n] = ev]
  /\ UNCHANGED weights

\* What an iteration did: the arm of the select, what message() returned (the
\* validator blamed in v, the block to finalize in block) and the panic.
Event(kind, res, why) ==
  [kind |-> kind,
   res |-> [t |-> res.t, why |-> res.why,
            v |-> IF res.t = "Malicious" THEN res.v ELSE NoValidator,
            block |-> IF res.t = "Ok" THEN res.v ELSE NoBlock],
   panic |-> why]

\* The canonical end time of round r of the height b is in.
RECURSIVE CanonicalEnd(_, _)
CanonicalEnd(b, r) ==
  IF r = 0 THEN b.end_time[0]
  ELSE RoundEndTime(RoundDataNew(r, CanonicalEnd(b, r - 1)))

\* select arm 1 (lines 342-349): a commit and the next proposal on the step channel
RunStep(n) ==
  /\ Running(n)
  /\ env.commits > 0
  /\ \E r \in 0 .. MaxRound, next \in Proposals :
       LET commit == Commit(CanonicalEnd(block[n], r), {}, EmptyMap)
           m == reset_by_commit(M(n), commit, next)
       IN /\ Store(n, m, Event("step", Ok(NoBlock), m.panic))
          /\ env' = [env EXCEPT !.commits = @ - 1]
          /\ UNCHANGED <<msg_recv, step_recv>>

\* select arm 2 (lines 352-354, then 394-435): our own queued message
RunQueue(n) ==
  /\ Running(n)
  /\ queue[n] # <<>>
  /\ LET msg == Head(queue[n])
         r == message([M(n) EXCEPT !.queue = Tail(@)], msg)
     IN \E next \in (IF Finalizes(r) THEN Proposals ELSE {NoBlock}),
           debug \in (IF Finalizes(r) THEN BOOLEAN ELSE {FALSE}) :
          LET m == AfterMessage(r, msg, TRUE, debug, next)
          IN /\ Store(n, m, Event("queue", r.res, m.panic))
             /\ msg_recv' = [p \in Nodes |->
                               IF p # n /\ m.panic = "" THEN msg_recv[p] \cup {msg}
                               ELSE msg_recv[p]]
             /\ UNCHANGED <<step_recv, env>>

\* A timeout arm that acts on the timeout's step whatever step the round
\* is in.
RunTimeoutAnyStep(n) ==
  /\ Running(n)
  /\ queue[n] = <<>>
  /\ block[n].round.timeouts # {}
  /\ LET step == EarliestTimeout(block[n].round)
         m0 == [M(n) EXCEPT !.block.round.timeouts = @ \ {step}]
         cur == block[n].round
         m == CASE step = "Propose" ->
                     broadcast(slash(m0, proposer(block[n].number, cur.number)),
                               Prevote(NoId))
                [] step = "Prevote" -> broadcast(m0, Precommit(NoId, NoSig))
                [] step = "Precommit" -> round(m0, cur.number + 1, NoRound).m
     IN /\ step = "Precommit" => cur.number < env.rounds
        /\ Store(n, m, Event("timeout", Ok(NoBlock), m.panic))
        /\ UNCHANGED <<msg_recv, step_recv, env>>

\* select arm 3 (lines 357-380): the earliest pending timeout fires
RunTimeout(n) ==
  /\ Running(n)
  /\ queue[n] = <<>>
  /\ block[n].round.timeouts # {}
  /\ LET step == EarliestTimeout(block[n].round)
         m0 == [M(n) EXCEPT !.block.round.timeouts = @ \ {step}]
         cur == block[n].round
         m == IF cur.step # step THEN m0
              ELSE CASE step = "Propose" ->
                          broadcast(slash(m0, proposer(block[n].number, cur.number)),
                                    Prevote(NoId))
                     [] step = "Prevote" -> broadcast(m0, Precommit(NoId, NoSig))
                     [] step = "Precommit" -> round(m0, cur.number + 1, NoRound).m
     IN /\ (cur.step = step /\ step = "Precommit") => cur.number < env.rounds
        /\ Store(n, m, Event("timeout", Ok(NoBlock), m.panic))
        /\ UNCHANGED <<msg_recv, step_recv, env>>

\* The messages the environment may invent for node n: each shape of its
\* pool, made a message of the node's current height. A shape's precommit
\* signature is "ok" (the sender's, over the round's canonical end time and
\* the id) or "junk".
ShapeData(n, sh) ==
  IF sh.data.step = "Precommit" /\ sh.data.id # NoId
  THEN Precommit(sh.data.id,
         IF sh.data.sig = "ok"
         THEN sign(sh.sender, commit_msg(CanonicalEnd(block[n], sh.round), sh.data.id))
         ELSE NoSig)
  ELSE sh.data

EnvMessages(n) ==
  {Message(sh.sender, block[n].number + sh.ahead, sh.round, ShapeData(n, sh)) : sh \in env.pool}

Shape(sender, r, data) == [sender |-> sender, round |-> r, data |-> data, ahead |-> 0]

\* select arm 4 (lines 383-392, then 394-435): an inbound message
Receive(n, msg, invented) ==
  LET r == message(M(n), msg)
  IN \E next \in (IF Finalizes(r) THEN Proposals ELSE {NoBlock}),
        debug \in (IF Finalizes(r) THEN BOOLEAN ELSE {FALSE}) :
       LET m == AfterMessage(r, msg, FALSE, debug, next)
       IN /\ Store(n, m, Event("message", r.res, m.panic))
          /\ msg_recv' = [msg_recv EXCEPT ![n] = @ \ {msg}]
          /\ env' = IF invented THEN [env EXCEPT !.inbound = @ - 1] ELSE env
          /\ UNCHANGED step_recv

RunMessage(n) ==
  /\ Running(n)
  /\ queue[n] = <<>>
  /\ env.inbound > 0
  /\ \E msg \in EnvMessages(n) : Receive(n, msg, TRUE)

\* the same arm, for a message another machine of the run broadcast
RunDelivered(n) ==
  /\ Running(n)
  /\ queue[n] = <<>>
  /\ \E msg \in msg_recv[n] : Receive(n, msg, FALSE)

\* a channel is closed: run() breaks out of its loop (lines 347, 390)
RunClosed(n) ==
  /\ Running(n)
  /\ alive' = [alive EXCEPT ![n] = "exited"]
  /\ last' = [last EXCEPT ![n] = Event("closed", Ok(NoBlock), "")]
  /\ UNCHANGED <<weights, queue, msg_recv, step_recv, block, network, last_end, env>>

Next ==
  \/ \E n \in Machines : RunStep(n)
  \/ \E n \in Machines : RunQueue(n)
  \/ \E n \in Machines : RunTimeout(n)
  \/ \E n \in Machines : RunMessage(n)
  \/ \E n \in Machines : RunClosed(n)

\* The votes of rounds 0 and 1 of a height, among three validators of
\* weights 1, 1, 2 (threshold 3): the proposals of validator 1, the votes of
\* validators 1 and 3, some of them equivocating.
VotesPool ==
  {Shape(1, 0, Proposal(NoRound, "X")),
   Shape(3, 0, Prevote(id("X"))),
   Shape(3, 0, Prevote(NoId)),
   Shape(3, 1, Prevote(id("X"))),
   Shape(3, 0, Precommit(NoId, NoSig)),
   Shape(3, 0, Precommit(id("X"), "ok")),
   Shape(3, 0, Precommit(id("X"), "junk")),
   Shape(1, 0, Precommit(id("X"), "ok")),
   Shape(3, 1, Precommit(id("X"), "ok")),
   Shape(3, 1, Precommit(id("Y"), "ok"))}

\* One machine, of validator `local`, created by new(); the environment
\* speaks for the other validators.
InitSolo(w, local, pool) ==
  /\ weights = w
  /\ block = (1 :> new(local, 0, 10, "X").block)
  /\ queue = (1 :> new(local, 0, 10, "X").queue)
  /\ network = (1 :> new(local, 0, 10, "X").network)
  /\ last_end = (1 :> 10)
  /\ msg_recv = (1 :> {})
  /\ step_recv = (1 :> <<>>)
  /\ alive = (1 :> "running")
  /\ env = [pool |-> pool, inbound |-> MaxInbound, commits |-> MaxCommits,
            heights |-> MaxHeight, rounds |-> MaxRound]
  /\ last = (1 :> Event("new", Ok(NoBlock), ""))

Init == InitSolo(<<1, 1, 2>>, 2, VotesPool)

\* Messages of rounds ahead of the machine: the votes of rounds 1 and 2, the
\* proposals of round 2's proposer (validator 3), precommits of round 2.
SkipPool ==
  {Shape(3, 1, Prevote(NoId)),
   Shape(1, 1, Prevote(id("X"))),
   Shape(3, 1, Prevote(id("X"))),
   Shape(1, 2, Prevote(NoId)),
   Shape(3, 2, Prevote(NoId)),
   Shape(3, 2, Proposal(NoRound, "X")),
   Shape(3, 2, Proposal(1, "X")),
   Shape(3, 2, Proposal(2, "X")),
   Shape(3, 2, Precommit(id("X"), "ok")),
   Shape(3, 2, Precommit(id("X"), "junk")),
   Shape(1, 2, Precommit(id("X"), "ok"))}

InitSkip == InitSolo(<<1, 1, 2>>, 2, SkipPool)

Spec == Init /\ [][Next]_vars
SpecSkip == InitSkip /\ [][Next]_vars

(***************************************************************************)
(* Properties.                                                             *)
(***************************************************************************)
\* The machines that have not panicked, and those whose run() is looping.
Up == {n \in Nodes : alive[n] # "panicked"}
Live == {n \in Nodes : alive[n] = "running"}

\* How long round r lasts: its end time less its start time.
RoundSpan(r) == RoundEndTime(RoundDataNew(r, 0))

\* end_time is known for every round up to the current one, and each round's
\* end time is the previous round's plus the round's span.
EndTimeChain(b) ==
  /\ DOMAIN b.end_time = 0 .. b.round.number
  /\ \A r \in DOMAIN b.end_time :
       r > 0 => b.end_time[r] = b.end_time[r - 1] + RoundSpan(r)
  /\ b.round.start_time = (IF b.round.number = 0 THEN b.end_time[0] - RoundSpan(0)
                           ELSE b.end_time[b.round.number - 1])

\* C8 as the spec states it: at every height end_time is defined for every
\* round up to the current one, each value is the canonical end of its round
\* whether the round was entered by timeout or skipped, and end_time[0] is
\* the previous height's canonical end time.
C8_EndTimeZeroIsPreviousEnd ==
  \A n \in Up : EndTimeChain(block[n]) /\ block[n].end_time[0] = last_end[n]

\* C8, amended: the same, except that end_time[0] is the end of round 0, one
\* round span after the previous height's canonical end time.
C8_EndTimeConsistency ==
  \A n \in Up : /\ EndTimeChain(block[n])
                /\ block[n].end_time[0] = last_end[n] + RoundSpan(0)

\* C8's case: a machine that finalized a height and, in the next, skipped
\* from round 0 to round 2 on the votes it received.
C8_Witness ==
  \E n \in Up : /\ block[n].number = 2
                /\ block[n].round.number = 2
                /\ last[n].kind = "message"
                /\ 1 \notin DOMAIN block[n].log.log

\* C6: within a height Network::slash is called once for each validator
\* slashed, however often slash() is called for it; the slash set of a height
\* is exactly the validators reported in that height, so a reset empties it
\* and the validator can be reported once more in the next height.
C6_SlashIdempotent ==
  \A n \in Nodes :
    /\ \A hv \in DOMAIN network[n].slash : network[n].slash[hv] = 1
    /\ block[n].slashes =
         {v \in Validators : <<block[n].number, v>> \in DOMAIN network[n].slash}
    /\ network[n].again \subseteq DOMAIN network[n].slash

\* C6's case: slash() was called again for a validator height 1 had already
\* slashed, and after the reset the same validator was slashed in height 2.
C6_Witness ==
  \E n \in Nodes : \E v \in Validators :
    /\ <<1, v>> \in network[n].again
    /\ <<2, v>> \in DOMAIN network[n].slash
    /\ block[n].number = 2

\* What run() does with an inbound message msg at node n: message()'s return
\* r and the machine m after the iteration.
Inbound(n, msg) ==
  LET r == message(M(n), msg)
  IN [r |-> r, m |-> AfterMessage(r, msg, FALSE, FALSE, "X")]

\* The inbound messages of node n's own height.
HeightMessages(n) == {msg \in EnvMessages(n) : msg.number = block[n].number}

\* C4: the log holds one Data per (round, validator, step); a message whose
\* Data differs from the one stored for its (round, sender, step) is answered
\* Malicious(sender) by log() and by message(), the stored Data stays, and
\* after it Network::slash has been called exactly once for the sender in the
\* height, whether or not the sender had been slashed before.
C4_SingleVote ==
  \A n \in Live : \A msg \in HeightMessages(n) :
    LET stored == get(block[n].log, msg.round, msg.sender, msg.data.step)
        logged == log(block[n].log, msg)
        after == Inbound(n, msg)
    IN (stored # NoData /\ ~DataEq(stored, msg.data)) =>
         /\ logged.res.t = "Malicious" /\ logged.res.v = msg.sender
         /\ logged.log = block[n].log
         /\ after.r.res.t = "Malicious" /\ after.r.res.v = msg.sender
         /\ after.m.block.log = block[n].log
         /\ get(after.m.block.log, msg.round, msg.sender, msg.data.step) = stored
         /\ after.m.network.slash[<<block[n].number, msg.sender>>] = 1
         /\ after.m.panic = ""

\* C4's case: the machine has just answered an equivocation by a validator
\* it had already slashed in the height, and holds one slash call for it.
C4_Witness ==
  \E n \in Up : \E v \in Validators :
    /\ last[n].kind = "message"
    /\ last[n].res.t = "Malicious" /\ last[n].res.why = "equivocation"
    /\ last[n].res.v = v
    /\ <<block[n].number, v>> \in network[n].again
    /\ network[n].slash[<<block[n].number, v>>] = 1

\* C5: once the log holds a Precommit(Some(id1, _)) of a validator in some
\* round of the height, a Precommit(Some(id2, _)) of that validator with
\* id2 # id1, of any round, is answered Malicious(validator), is not stored,
\* and leaves exactly one Network::slash call for the validator.
C5_PrecommitUnique ==
  \A n \in Live : \A msg \in HeightMessages(n) :
    LET after == Inbound(n, msg)
    IN (/\ IsPrecommitSome(msg.data)
        /\ \E r \in DOMAIN block[n].log.log :
             LET held == get(block[n].log, r, msg.sender, "Precommit")
             IN held # NoData /\ IsPrecommitSome(held) /\ held.id # msg.data.id)
       =>
         /\ after.r.res.t = "Malicious" /\ after.r.res.v = msg.sender
         /\ get(after.m.block.log, msg.round, msg.sender, "Precommit")
              = get(block[n].log, msg.round, msg.sender, "Precommit")
         /\ after.m.block.log.precommitted = block[n].log.precommitted
         /\ after.m.network.slash[<<block[n].number, msg.sender>>] = 1
         /\ after.m.panic = ""

\* C5's case: a validator whose precommit for one block the log holds has
\* just had a precommit of another round turned down by the height's
\* precommit registry.
C5_Witness ==
  \E n \in Up : \E v \in Validators :
    /\ last[n].kind = "message"
    /\ last[n].res.t = "Malicious" /\ last[n].res.why = "precommitted"
    /\ last[n].res.v = v
    /\ v \in DOMAIN block[n].log.precommitted
    /\ v \in block[n].slashes
    /\ network[n].slash[<<block[n].number, v>>] = 1

\* The log of node n holds, for msg's (round, sender, step), a Data equal to
\* msg's (Data's equality: a precommit's signature does not count).
Held(n, msg) ==
  LET stored == get(block[n].log, msg.round, msg.sender, msg.data.step)
  IN stored # NoData /\ DataEq(stored, msg.data)

\* Processing msg at node n is a no-op: log() returns false, message()
\* returns Ok(None), the block data (log, step, locked, valid, timeouts,
\* round, slash set), the queue and the calls on Network stay as they were.
NoOp(n, msg) ==
  LET logged == log(block[n].log, msg)
      after == Inbound(n, msg)
  IN /\ logged.res.t = "Ok" /\ logged.res.v = FALSE
     /\ logged.log = block[n].log
     /\ after.r.res.t = "Ok" /\ after.r.res.v = NoBlock
     /\ after.m.block = block[n]
     /\ after.m.queue = queue[n]
     /\ after.m.network = network[n]
     /\ after.m.panic = ""

\* C9 as the spec states it: a message whose (round, sender, step) holds an
\* equal Data in the log (a precommit: the same block id, whatever its
\* signature) is a no-op.
C9_ReplayAnySignature ==
  \A n \in Live : \A msg \in HeightMessages(n) : Held(n, msg) => NoOp(n, msg)

\* C9, amended: such a message is a no-op when it passes message()'s check of
\* a precommit's signature, which comes before the log: its signature
\* verifies, or the end time of its round is not known yet.
C9_ReplayIdempotent ==
  \A n \in Live : \A msg \in HeightMessages(n) :
    (Held(n, msg) /\ verify_precommit_signature(block[n], msg.sender, msg.round, msg.data))
      => NoOp(n, msg)

\* C9's case: the machine has just answered a replay, of a validator whose
\* precommit for a block it holds, while its own vote was already out.
C9_Witness ==
  \E n \in Up :
    /\ last[n].kind = "message"
    /\ last[n].res.t = "Ok" /\ last[n].res.why = "replay"
    /\ block[n].log.precommitted # EmptyMap
    /\ block[n].round.step # "Propose"

\* C7: within one height no step of a machine (a message, a timeout, a round
\* skip) lowers the round stored in locked or the round stored in valid, or
\* takes either from set back to unset.
C7_MonotoneLock ==
  [][\A n \in Nodes :
       block'[n].number = block[n].number =>
         /\ block'[n].locked.round >= block[n].locked.round
         /\ block'[n].valid.round >= block[n].valid.round
         /\ block[n].locked # NoLocked => block'[n].locked # NoLocked
         /\ block[n].valid # NoValid => block'[n].valid # NoValid]_vars

\* C7's case: a machine that locked in round 0, went on to round 1 after the
\* precommit timeout, and locked again there.
C7_Witness ==
  \E n \in Up :
    /\ block[n].locked.round = 1
    /\ block[n].valid.round = 1
    /\ IsPrecommitSome(get(block[n].log, 0, block[n].validator_id, "Precommit"))

\* msg is newly logged by message() at node n: the log held nothing for its
\* (round, sender, step) and holds msg's Data after the call.
NewlyLogged(n, msg) ==
  /\ get(block[n].log, msg.round, msg.sender, msg.data.step) = NoData
  /\ get(message(M(n), msg).m.block.log, msg.round, msg.sender, msg.data.step) = msg.data

\* The boundary of the round skip, for a message of a round ahead: at a
\* participation of fault_thresold in the message's round the machine is
\* still in its round after message(), at more it is in the message's round.
SkipBoundary(n, msg) ==
  LET r == message(M(n), msg)
      part == round_participation(r.m.block.log, msg.round)
  IN /\ part = fault_thresold => r.m.block.round.number = block[n].round.number
     /\ part >= fault_thresold + 1 => r.m.block.round.number = msg.round

\* C10 as the spec states it: whenever a newly logged message has a round
\* greater than the current round, the node stays at a participation of
\* fault_thresold and jumps at fault_thresold + 1 or more.
C10_SkipOnEveryMessageAhead ==
  \A n \in Live : \A msg \in HeightMessages(n) :
    (msg.round > block[n].round.number /\ NewlyLogged(n, msg)) => SkipBoundary(n, msg)

\* C10, amended: the same for every such message but one that completes the
\* precommits for its round's proposal: there message() returns the block
\* (the finalizer comes before the skip) and the round stays.
C10_SkipBoundary ==
  \A n \in Live : \A msg \in HeightMessages(n) :
    (/\ msg.round > block[n].round.number
     /\ NewlyLogged(n, msg)
     /\ ~Finalizes(message(M(n), msg)))
      => SkipBoundary(n, msg)

\* C10's case: a machine that stayed in round 0 on a message of round 1, whose
\* participation is fault_thresold, and has just jumped to round 2 on a
\* message that took round 2's participation to fault_thresold + 1.
C10_Witness ==
  \E n \in Up :
    /\ last[n].kind = "message"
    /\ block[n].round.number = 2
    /\ round_participation(block[n].log, 1) = fault_thresold
    /\ round_participation(block[n].log, 2) = fault_thresold + 1
    /\ block[n].validator_id \notin DOMAIN block[n].log.log[1]
    /\ block[n].validator_id \notin DOMAIN block[n].log.log[2]

\* C2: every commit handed to Network::add_block verifies: each signature in
\* it is its validator's over commit_msg(commit.end_time, id of the block),
\* the listed validators weigh threshold or more, and so the debug assertion
\* on verify_commit never fails; also when a listed validator precommitted
\* the block in more than one round.
C2_CommitValidity ==
  \A n \in Nodes :
    /\ \A i \in 1 .. Len(network[n].blocks) :
         verify_commit(id(network[n].blocks[i].block), network[n].blocks[i].commit)
    /\ last[n].panic # "debug_assert verify_commit"

\* Three validators of weights 2, 1, 1 (threshold 3, fault_thresold 2): the
\* machine is validator 3, validator 1 is honest and validator 2 Byzantine,
\* the proposer of round 2 of height 1. The pool holds what validator 1 sends
\* when it sees no quorum (it proposes X in round 0 and precommits nil, and
\* prevotes and precommits nil in round 2, which it reached by timeouts),
\* and what validator 2 makes up for round 2.
ByzPool ==
  {Shape(1, 0, Proposal(NoRound, "X")),
   Shape(1, 0, Precommit(NoId, NoSig)),
   Shape(1, 2, Prevote(NoId)),
   Shape(1, 2, Precommit(NoId, NoSig)),
   Shape(2, 2, Proposal(NoRound, "Y")),
   Shape(2, 2, Proposal(1, "Y")),
   Shape(2, 2, Prevote(id("Y"))),
   Shape(2, 2, Precommit(id("Y"), "ok"))}

InitByz == InitSolo(<<2, 1, 1>>, 3, ByzPool)
SpecByz == InitByz /\ [][Next]_vars

\* C3: inbound messages of Byzantine validators, in any order among the
\* honest messages and the timeouts, never make run() panic: as long as the
\* host has delivered no commit, the machine has not panicked.
C3_NoPanicOnMessages ==
  \A n \in Nodes : env.commits = MaxCommits => alive[n] # "panicked"

\* Two machines, of the honest validators 2 (weight 2) and 3 (weight 1); the
\* Byzantine validator 1 (weight 1, below fault_thresold 2) is the proposer
\* of round 0 and sends either machine what it likes: either proposal, and
\* a prevote for Y. What a machine broadcasts reaches the other.
NetPool ==
  {Shape(1, 0, Proposal(NoRound, "X")),
   Shape(1, 0, Proposal(NoRound, "Y")),
   Shape(1, 0, Prevote(id("Y")))}

InitNet ==
  /\ weights = <<1, 2, 1>>
  /\ block = (1 :> new(2, 0, 10, "X").block @@ 2 :> new(3, 0, 10, "Y").block)
  /\ queue = (1 :> new(2, 0, 10, "X").queue @@ 2 :> new(3, 0, 10, "Y").queue)
  /\ network = (1 :> new(2, 0, 10, "X").network @@ 2 :> new(3, 0, 10, "Y").network)
  /\ last_end = (1 :> 10 @@ 2 :> 10)
  /\ msg_recv = (1 :> {} @@ 2 :> {})
  /\ step_recv = (1 :> <<>> @@ 2 :> <<>>)
  /\ alive = (1 :> "running" @@ 2 :> "running")
  /\ env = [pool |-> NetPool, inbound |-> NetInbound, commits |-> MaxCommits,
            heights |-> NetHeights, rounds |-> NetRounds]
  /\ last = (1 :> Event("new", Ok(NoBlock), "") @@ 2 :> Event("new", Ok(NoBlock), ""))

\* The step channel stays open and silent: the machines leave height 1 by
\* finalizing it.
NextNet ==
  \/ \E n \in Machines : RunQueue(n)
  \/ \E n \in Machines : RunTimeout(n)
  \/ \E n \in Machines : RunMessage(n)
  \/ \E n \in Machines : RunDelivered(n)

SpecNet == InitNet /\ [][NextNet]_vars

\* The blocks machine n has handed to Network::add_block, as (height, id).
Finalized(n) ==
  {<<network[n].blocks[i].number, id(network[n].blocks[i].block)>> :
     i \in 1 .. Len(network[n].blocks)}

SevenPool ==
  {Shape(1, 0, Proposal(NoRound, "X")),
   Shape(1, 2, Prevote(NoId)),
   Shape(2, 2, Prevote(NoId)),
   Shape(4, 2, Prevote(id("X"))),
   Shape(5, 2, Prevote(NoId)),
   Shape(3, 2, Proposal(NoRound, "X"))}

InitSeven == InitSolo(<<1, 1, 1, 1, 1, 1, 1>>, 7, SevenPool)
SpecSeven == InitSeven /\ [][Next]_vars

\* The validators whose prevote of round r the log holds.
Prevoters(l, r) == IF HasRound(l, r) THEN Participants(l, r, "Prevote") ELSE {}

\* msg is a prevote of round 2, new to the log of node n, which is in round 0.
PrevoteAhead(n, msg) ==
  /\ block[n].round.number = 0
  /\ msg.round = 2
  /\ msg.data.step = "Prevote"
  /\ NewlyLogged(n, msg)

\* C11 as the spec states it: with seven validators of equal weight
\* (threshold 5, fault_thresold 3), a node in round 0 that logs a prevote of
\* round 2 is in round 2 after it once round 2's participating weight has
\* reached fault_thresold: three distinct validators are enough.
C11_SkipAtFaultThreshold ==
  /\ threshold = 5 /\ fault_thresold = 3
  /\ \A n \in Live : \A msg \in HeightMessages(n) :
       LET r == message(M(n), msg)
       IN (/\ PrevoteAhead(n, msg)
           /\ round_participation(r.m.block.log, 2) >= fault_thresold)
            => r.m.block.round.number = 2

\* C11, amended: the participating weight has to exceed fault_thresold. With
\* the prevotes of three distinct validators the node is still in round 0;
\* the prevote of a fourth takes it to round 2, with the end time of round 1
\* filled in on the way.
C11_SkipAboveFaultThreshold ==
  /\ threshold = 5 /\ fault_thresold = 3
  /\ \A n \in Live : \A msg \in HeightMessages(n) :
       LET r == message(M(n), msg)
           senders == Prevoters(r.m.block.log, 2)
       IN PrevoteAhead(n, msg) =>
            /\ (round_participation(r.m.block.log, 2) <= 3 /\ Cardinality(senders) <= 3)
                 => r.m.block.round.number = 0
            /\ Cardinality(senders) >= 4 =>
                 /\ r.m.block.round.number = 2
                 /\ r.m.block.round.step = "Propose"
                 /\ DOMAIN r.m.block.end_time = {0, 1, 2}
                 /\ r.m.panic = ""

\* C11's case: the node has just gone from round 0 to round 2 on the prevote
\* of a fourth validator; it never was in round 1.
C11_Witness ==
  \E n \in Up :
    /\ last[n].kind = "message"
    /\ block[n].number = 1
    /\ block[n].round.number = 2
    /\ Cardinality(Prevoters(block[n].log, 2)) = 4
    /\ round_participation(block[n].log, 2) = 4
    /\ ~HasRound(block[n].log, 1)

\* C12: a Precommit(Some(id, sig)) of a round whose end time the node does
\* not know yet is logged without its signature being verified; and when a
\* message takes the node to that round, every Precommit(Some(id, sig)) the
\* log holds for the round verifies against commit_msg(end_time[round], id)
\* or its sender has been slashed.
C12_VerifiedAtJump ==
  \A n \in Live : \A msg \in HeightMessages(n) :
    LET after == Inbound(n, msg)
        b == after.m.block
    IN /\ (/\ IsPrecommitSome(msg.data)
           /\ msg.round \notin DOMAIN block[n].end_time
           /\ get(block[n].log, msg.round, msg.sender, "Precommit") = NoData
           /\ msg.sender \notin DOMAIN block[n].log.precommitted)
          => get(message(M(n), msg).m.block.log, msg.round, msg.sender, "Precommit") = msg.data
       /\ (/\ msg.round > block[n].round.number
           /\ after.m.panic = ""
           /\ b.number = block[n].number
           /\ b.round.number = msg.round)
          => \A v \in DOMAIN b.log.log[msg.round] :
               LET d == get(b.log, msg.round, v, "Precommit")
               IN (d # NoData /\ IsPrecommitSome(d)) =>
                    \/ verify(v, commit_msg(b.end_time[msg.round], d.id), d.sig)
                    \/ v \in b.slashes

\* C13: after a reset, from the node's own finalization or from
\* reset_by_commit, the outgoing queue holds no message of the height left
\* behind, and so the node's message handler is never handed one: it never
\* answers an own message Temporal, which run() takes for invalid behaviour
\* of an honest node.
C13_NoStaleQueue ==
  \A n \in Nodes :
    /\ alive[n] # "panicked" =>
         \A i \in 1 .. Len(queue[n]) : queue[n][i].number = block[n].number
    /\ ~(last[n].kind = "queue" /\ last[n].res.t = "Temporal")

\* C14: reset_by_commit, for a commit whose end time is the canonical end
\* time of a round r >= 0 of the current height, also a round after the
\* node's current one, completes without a panic and leaves the node in
\* round 0 of the next height, started at that end time.
C14_CommitOfAnyRound ==
  \A n \in Nodes :
    last[n].kind = "step" =>
      /\ last[n].panic = ""
      /\ alive[n] # "panicked"
      /\ block[n].round.number = 0
      /\ block[n].round.start_time = last_end[n]
      /\ DOMAIN block[n].end_time = {0}

\* The finalizations open to node n in its next iteration: the machine
\* message() runs on and the message, its own queued message (popped from
\* the queue) if there is one, else any inbound message of its height.
Finalizations(n) ==
  {f \in (IF queue[n] # <<>>
          THEN {[m |-> [M(n) EXCEPT !.queue = Tail(@)], msg |-> Head(queue[n]), own |-> TRUE]}
          ELSE {[m |-> M(n), msg |-> msg, own |-> FALSE] : msg \in HeightMessages(n)}) :
     Finalizes(message(f.m, f.msg))}

\* C15: where the node finalizes round r of its height through its message
\* handler and reset, reset_by_commit with the commit of that finalization
\* and the same next proposal reaches the same state: the whole block data
\* (height, round 0 and its step and timeouts, empty log, empty slash set,
\* locked and valid unset, end_time map), the outgoing queue and the start
\* time of the new height.
C15_ExternalMatchesLocal ==
  \A n \in Live : \A f \in Finalizations(n) : \A next \in Proposals :
    LET r == message(f.m, f.msg)
        local == AfterMessage(r, f.msg, f.own, FALSE, next)
        commit == AssembleCommit(r.m.block, f.msg, r.res.v)
        ext == reset_by_commit(f.m, commit, next)
    IN local.panic = "" =>
         /\ ext.panic = ""
         /\ ext.block = local.block
         /\ ext.queue = local.queue
         /\ ext.last_end = local.last_end
         /\ ext.block.number = block[n].number + 1
         /\ ext.block.round.number = 0
         /\ ext.block.round.start_time = block[n].end_time[f.msg.round]
         /\ ext.block.log = MessageLogNew
         /\ ext.block.slashes = {}
         /\ ext.block.locked = NoLocked /\ ext.block.valid = NoValid

\* C15's case: the node went on to round 1 of height 1, where it proposed,
\* and then finalized round 0 on a late precommit: height 2 starts at the
\* end of round 0, not of the round the node was in.
C15_Witness ==
  \E n \in Up :
    /\ last[n].kind = "message"
    /\ last[n].res.block # NoBlock
    /\ block[n].number = 2
    /\ \E msg \in network[n].broadcast : msg.number = 1 /\ msg.round = 1
    /\ Len(network[n].blocks) = 1
    /\ network[n].blocks[1].commit.end_time = block[n].round.start_time
    /\ block[n].round.start_time = new(2, 0, 10, "X").block.end_time[0]

(***************************************************************************)
(* run()'s select, with its event sources kept apart from the loop: the    *)
(* host and the gossip layer put items on the two channels and close them, *)
(* time passes and makes armed timeouts due, and an iteration of the loop  *)
(* takes the first arm of select_biased! that is ready (lines 340-393).    *)
(* env.due holds the deadlines that have passed, as (height, round, step); *)
(* env.closed the channels whose senders are gone.                         *)
(***************************************************************************)
StepChannel == 1
QueueArm == 2
TimeoutArm == 3
MessageChannel == 4

\* The armed timeouts of node n whose deadline has passed.
Due(n) ==
  {s \in block[n].round.timeouts :
     <<block[n].number, block[n].round.number, s>> \in env.due}

\* Channels whose next() stays pending when they are closed and empty.
ReadyOpen(n, arm) ==
  CASE arm = StepChannel -> step_recv[n] # <<>>
    [] arm = QueueArm -> queue[n] # <<>>
    [] arm = TimeoutArm -> Due(n) # {}
    [] arm = MessageChannel -> msg_recv[n] # {}

\* Whether the future of an arm of the select is ready: next() of a channel
\* is ready with an item, or with None once the channel is closed and empty.
Ready(n, arm) ==
  CASE arm = StepChannel -> step_recv[n] # <<>> \/ StepChannel \in env.closed
    [] arm = QueueArm -> queue[n] # <<>>
    [] arm = TimeoutArm -> Due(n) # {}
    [] arm = MessageChannel -> msg_recv[n] # {} \/ MessageChannel \in env.closed

\* A select that takes any arm that is ready, in no order.
SelectedUnbiased(n, arm) == Ready(n, arm)

\* select_biased!: the first arm, in the order written, that is ready.
Selected(n, arm) == Ready(n, arm) /\ \A a \in 1 .. arm - 1 : ~Ready(n, a)

\* run() returns (break, lines 347 and 390)
Exit(n) ==
  /\ alive' = [alive EXCEPT ![n] = "exited"]
  /\ last' = [last EXCEPT ![n] = Event("closed", Ok(NoBlock), "")]
  /\ UNCHANGED <<weights, queue, msg_recv, step_recv, block, network, last_end, env>>

\* arm 1, Some((commit, proposal)) (lines 343-345)
LoopStep(n) ==
  /\ Running(n)
  /\ Selected(n, StepChannel)
  /\ step_recv[n] # <<>>
  /\ LET item == Head(step_recv[n])
         m == reset_by_commit(M(n), item.commit, item.proposal)
     IN /\ Store(n, m, Event("step", Ok(NoBlock), m.panic))
        /\ step_recv' = [step_recv EXCEPT ![n] = Tail(@)]
        /\ UNCHANGED <<msg_recv, env>>

\* arm 1, None (lines 346-348)
LoopStepClosed(n) ==
  /\ Running(n)
  /\ Selected(n, StepChannel)
  /\ step_recv[n] = <<>>
  /\ Exit(n)

\* arm 2
LoopQueue(n) == Running(n) /\ Selected(n, QueueArm) /\ RunQueue(n)

\* arm 3
LoopTimeout(n) == Running(n) /\ Selected(n, TimeoutArm) /\ RunTimeout(n)

\* arm 4, Some(msg) (lines 384-388)
LoopMessage(n) == Running(n) /\ Selected(n, MessageChannel) /\ RunDelivered(n)

\* arm 4, None (lines 389-391)
LoopMessagesClosed(n) ==
  /\ Running(n)
  /\ Selected(n, MessageChannel)
  /\ msg_recv[n] = {}
  /\ Exit(n)

\* The host sends the commit of a round the node has been in, and the next
\* proposal, on the step channel.
HostStep(n) ==
  /\ Running(n)
  /\ env.commits > 0
  /\ StepChannel \notin env.closed
  /\ \E r \in DOMAIN block[n].end_time, next \in Proposals :
       step_recv' = [step_recv EXCEPT ![n] =
                       Append(@, [commit |-> Commit(block[n].end_time[r], {}, EmptyMap),
                                  proposal |-> next])]
  /\ env' = [env EXCEPT !.commits = @ - 1]
  /\ UNCHANGED <<weights, queue, msg_recv, block, network, alive, last_end, last>>

\* The gossip layer sends a message on the message channel.
GossipSend(n) ==
  /\ Running(n)
  /\ env.inbound > 0
  /\ MessageChannel \notin env.closed
  /\ \E msg \in EnvMessages(n) \ msg_recv[n] :
       msg_recv' = [msg_recv EXCEPT ![n] = @ \cup {msg}]
  /\ env' = [env EXCEPT !.inbound = @ - 1]
  /\ UNCHANGED <<weights, queue, step_recv, block, network, alive, last_end, last>>

\* The senders of a channel are dropped.
Close(n) ==
  /\ Running(n)
  /\ \E ch \in {StepChannel, MessageChannel} \ env.closed :
       env' = [env EXCEPT !.closed = @ \cup {ch}]
  /\ UNCHANGED <<weights, queue, msg_recv, step_recv, block, network, alive, last_end, last>>

\* Time passes the earliest deadline, among the armed timeouts, that it had
\* not passed yet; the deadlines of a round are in step order.
Elapse(n) ==
  /\ Running(n)
  /\ \E s \in block[n].round.timeouts \ Due(n) :
       /\ \A t \in block[n].round.timeouts \ Due(n) : StepOrd(s) <= StepOrd(t)
       /\ env' = [env EXCEPT !.due = @ \cup
                    {<<block[n].number, block[n].round.number, t>> :
                       t \in {u \in Steps : StepOrd(u) <= StepOrd(s)}}]
  /\ UNCHANGED <<weights, queue, msg_recv, step_recv, block, network, alive, last_end, last>>

\* One iteration of run()'s loop at node n.
Iteration(n) ==
  \/ LoopStep(n)
  \/ LoopStepClosed(n)
  \/ LoopQueue(n)
  \/ LoopTimeout(n)
  \/ LoopMessage(n)
  \/ LoopMessagesClosed(n)

NextLoop ==
  \/ \E n \in Machines : LoopStep(n)
  \/ \E n \in Machines : LoopStepClosed(n)
  \/ \E n \in Machines : LoopQueue(n)
  \/ \E n \in Machines : LoopTimeout(n)
  \/ \E n \in Machines : LoopMessage(n)
  \/ \E n \in Machines : LoopMessagesClosed(n)
  \/ \E n \in Machines : HostStep(n)
  \/ \E n \in Machines : GossipSend(n)
  \/ \E n \in Machines : Close(n)
  \/ \E n \in Machines : Elapse(n)

\* Round 0 of a height as validators 1 (its proposer) and 3 play it when
\* they get no block through: the proposal, and nil votes.
LoopPool ==
  {Shape(1, 0, Proposal(NoRound, "X")),
   Shape(3, 0, Prevote(NoId)),
   Shape(3, 0, Precommit(NoId, NoSig))}

InitLoop ==
  /\ weights = <<1, 1, 2>>
  /\ block = (1 :> new(2, 0, 10, "X").block)
  /\ queue = (1 :> new(2, 0, 10, "X").queue)
  /\ network = (1 :> new(2, 0, 10, "X").network)
  /\ last_end = (1 :> 10)
  /\ msg_recv = (1 :> {})
  /\ step_recv = (1 :> <<>>)
  /\ alive = (1 :> "running")
  /\ env = [pool |-> LoopPool, inbound |-> MaxInbound, commits |-> MaxCommits,
            heights |-> MaxCommits + 1, rounds |-> MaxRound, due |-> {}, closed |-> {}]
  /\ last = (1 :> Event("new", Ok(NoBlock), ""))

SpecLoop == InitLoop /\ [][NextLoop]_vars

\* C16: an iteration of run() (a step that is not the environment's) handles
\* a step-channel item whenever one is pending; handles a queued outgoing
\* message only when the step channel has nothing, and then before any
\* timeout or inbound message; handles a timeout only when neither the step
\* channel nor the queue has anything; and handles an inbound message only
\* when in addition no armed timeout is due.
C16_EventPriority ==
  [][\A n \in Nodes :
       (env' = env /\ alive[n] = "running" /\ last'[n].kind # "closed") =>
         LET kind == last'[n].kind
             step == step_recv[n] # <<>>
             own == queue[n] # <<>>
             timeout == Due(n) # {}
         IN /\ step_recv'[n] # step_recv[n] <=> kind = "step"
            /\ msg_recv'[n] # msg_recv[n] <=> kind = "message"
            /\ kind \in {"step", "queue", "timeout", "message"}
            /\ step <=> kind = "step"
            /\ (~step /\ own) <=> kind = "queue"
            /\ (~step /\ ~own /\ timeout) <=> kind = "timeout"
            /\ kind = "message" => (~step /\ ~own /\ ~timeout /\ msg_recv[n] # {})
            /\ kind = "timeout" =>
                 block'[n].round.timeouts =
                   (IF block'[n].round.number = block[n].round.number
                    THEN block[n].round.timeouts \ {EarliestTimeout(block[n].round)}
                    ELSE block'[n].round.timeouts)]_vars

\* C16's case: an iteration has just served the step channel while an own
\* message was queued, a timeout was due and an inbound message waited.
C16_Witness ==
  \E n \in Up :
    /\ last[n].kind = "step"
    /\ block[n].number = 2
    /\ \E i \in 1 .. Len(queue[n]) : queue[n][i].number = 1
    /\ msg_recv[n] # {}
    /\ \E s \in Steps : <<1, 0, s>> \in env.due

\* What an iteration of the loop changes, and the steps that are iterations
\* of node n: the environment's steps all change env.
loopvars == <<queue, msg_recv, step_recv, block, alive>>
Iterates(n) == env' = env /\ n \in Nodes /\ alive[n] = "running"

\* Whether Iteration(n) is enabled: some arm of the select is ready. (The
\* handlers are total; the one guard that is the model's is RunTimeout's on
\* the last round explored.)
IterationEnabled(n) ==
  /\ Running(n)
  /\ \E arm \in StepChannel .. MessageChannel : Selected(n, arm)
  /\ Selected(n, TimeoutArm) =>
       ~(/\ EarliestTimeout(block[n].round) = "Precommit"
         /\ block[n].round.step = "Precommit"
         /\ block[n].round.number >= env.rounds)

\* The loop always gets to its next iteration: select_biased! is awaited
\* again as soon as the handler of the last event has returned. This is weak
\* fairness of Iteration(n): WF of the two arms that end the loop, and for
\* all arms WF_loopvars(Iteration(n)) written out by its definition, with
\* IterationEnabled for ENABLED.
SpecLoopFair ==
  /\ SpecLoop
  /\ \A n \in Machines : WF_alive(LoopStepClosed(n) \/ LoopMessagesClosed(n))
  /\ \A n \in Machines : []<>(~IterationEnabled(n)) \/ []<><<Iterates(n)>>_loopvars

\* A channel of node n is closed and its items have been consumed.
StepDrained(n) ==
  n \in Nodes /\ alive[n] = "running" /\ StepChannel \in env.closed /\ step_recv[n] = <<>>
MessagesDrained(n) ==
  n \in Nodes /\ alive[n] = "running" /\ MessageChannel \in env.closed /\ msg_recv[n] = {}

\* Nothing is left that reset_by_commit could panic on, or could have left
\* behind: no commit is pending or to come, and the queue holds messages of
\* the node's height only.
Settled(n) ==
  /\ step_recv[n] = <<>>
  /\ env.commits = 0
  /\ \A i \in 1 .. Len(queue[n]) : queue[n][i].number = block[n].number

Exited(n) == n \in Nodes /\ alive[n] = "exited"

Holds(l, msg) == DataEq(get(l, msg.round, msg.sender, msg.data.step), msg.data)

\* The messages node n passes to Network::broadcast in the step taken.
Broadcasts(n) == network'[n].broadcast \ network[n].broadcast

\* The machine and the result of message() on the head of node n's queue.
OwnResult(n) == message([M(n) EXCEPT !.queue = Tail(@)], Head(queue[n]))

\* C17: a message is passed to Network::broadcast only in the iteration that
\* took it from the node's own queue, after message() accepted it and left it
\* in the node's log; and every message broadcast for the node's current
\* height is in the node's log.
C17_OwnVoteFirst ==
  /\ [][\A n \in Nodes :
          Broadcasts(n) # {} =>
            /\ queue[n] # <<>>
            /\ Broadcasts(n) = {Head(queue[n])}
            /\ Head(queue[n]).sender = block[n].validator_id
            /\ last'[n].kind = "queue" /\ last'[n].panic = ""
            /\ OwnResult(n).res.t = "Ok"
            /\ Holds(OwnResult(n).m.block.log, Head(queue[n]))]_vars
  /\ [](\A n \in Nodes :
          \A msg \in network[n].broadcast :
            msg.number = block[n].number => Holds(block[n].log, msg))

\* C17's case: the node broadcast its own prevote and its own precommit of a
\* round, both held in its log, and still has a message queued that it has
\* not broadcast.
C17_Witness ==
  \E n \in Nodes :
    /\ \E a, b \in network[n].broadcast :
         /\ a.number = block[n].number /\ b.number = block[n].number
         /\ a.round = b.round
         /\ a.data.step = "Prevote" /\ b.data.step = "Precommit"
         /\ Holds(block[n].log, a) /\ Holds(block[n].log, b)
    /\ queue[n] # <<>>
    /\ Head(queue[n]) \notin network[n].broadcast


(***************************************************************************)
(* C18: a machine created with validator_id None (an observer), run next   *)
(* to a validator whose broadcasts it receives.                            *)
(***************************************************************************)
\* What validators 2 and 3 send while validator 1 (a machine of the run)
\* proposes: votes for its block, and nil votes of round 1.
ObsPool ==
  {Shape(3, 0, Prevote(id("X"))),
   Shape(3, 0, Precommit(id("X"), "ok")),
   Shape(2, 1, Prevote(NoId)),
   Shape(3, 1, Prevote(NoId))}

\* Machine 1 is the observer, machine 2 is validator 1.
InitObs ==
  /\ weights = <<1, 1, 2>>
  /\ block = (1 :> new(NoValidator, 0, 10, "X").block @@ 2 :> new(1, 0, 10, "X").block)
  /\ queue = (1 :> new(NoValidator, 0, 10, "X").queue @@ 2 :> new(1, 0, 10, "X").queue)
  /\ network = (1 :> new(NoValidator, 0, 10, "X").network @@ 2 :> new(1, 0, 10, "X").network)
  /\ last_end = (1 :> 10 @@ 2 :> 10)
  /\ msg_recv = (1 :> {} @@ 2 :> {})
  /\ step_recv = (1 :> <<>> @@ 2 :> <<>>)
  /\ alive = (1 :> "running" @@ 2 :> "running")
  /\ env = [pool |-> ObsPool, inbound |-> ObsInbound, commits |-> MaxCommits,
            heights |-> NetHeights, rounds |-> NetRounds]
  /\ last = (1 :> Event("new", Ok(NoBlock), "") @@ 2 :> Event("new", Ok(NoBlock), ""))

NextObs ==
  \/ \E n \in Machines : RunStep(n)
  \/ \E n \in Machines : RunQueue(n)
  \/ \E n \in Machines : RunTimeout(n)
  \/ \E n \in Machines : RunMessage(n)
  \/ \E n \in Machines : RunDelivered(n)

SpecObs == InitObs /\ [][NextObs]_vars

Observer(n) == n \in Nodes /\ block[n].validator_id = NoValidator

\* C18: an observer's outgoing queue is always empty and it has passed
\* nothing to Network::broadcast, whatever it received, whichever timeouts
\* fired, and through round skips and resets; no other machine ever holds a
\* message of its making.
C18_ObserverSilent ==
  \A n \in Nodes :
    Observer(n) =>
      /\ queue[n] = <<>>
      /\ network[n].broadcast = {}
      /\ \A p \in Nodes : \A msg \in msg_recv[p] : msg.sender # NoValidator

\* C18's case: the observer's propose timeout fired (it reported the
\* proposer), it skipped to round 1 on the votes it received, and it was
\* reset to height 2 by a commit of round 1.
C18_Witness ==
  \E n \in Nodes :
    /\ Observer(n)
    /\ alive[n] = "running"
    /\ last[n].kind = "step"
    /\ block[n].number = 2
    /\ block[n].round.start_time = CanonicalEnd(new(NoValidator, 0, 10, "X").block, 1)
    /\ network[n].slash # EmptyMap
    /\ queue[n] = <<>> /\ network[n].broadcast = {}


(***************************************************************************)
(* C20: messages of another height than the machine's (lines 463-465),     *)
(* among messages of its height.                                           *)
(***************************************************************************)
\* A shape of the height `ahead` heights from the machine's.
ShapeAt(ahead, sender, r, data) == [Shape(sender, r, data) EXCEPT !.ahead = ahead]

\* Round 0 of the height, which validators 1 and 3 can finalize, and what
\* a machine would react to if it were of its height, sent for the height
\* before and the height after: a proposal of a validator that is not the
\* proposer, a precommit with a bad signature, the votes that finalize, a
\* vote against the one logged, and votes of round 2.
HeightsPool ==
  {Shape(1, 0, Proposal(NoRound, "X")),
   Shape(3, 0, Prevote(id("X"))),
   Shape(3, 0, Precommit(id("X"), "ok")),
   Shape(1, 0, Precommit(id("X"), "ok")),
   ShapeAt(-1, 3, 0, Precommit(id("X"), "ok")),
   ShapeAt(-1, 3, 0, Proposal(NoRound, "Y")),
   ShapeAt(1, 3, 0, Precommit(id("X"), "junk")),
   ShapeAt(1, 3, 0, Prevote(NoId)),
   ShapeAt(1, 3, 2, Prevote(NoId)),
   ShapeAt(1, 1, 2, Prevote(NoId))}

InitHeights == InitSolo(<<1, 1, 2>>, 2, HeightsPool)
SpecHeights == InitHeights /\ [][Next]_vars

\* The messages of another height that node n may receive.
WrongHeight(n) == {msg \in EnvMessages(n) : msg.number # block[n].number}

\* C20: in every reachable state, message() on any message of another height
\* returns Temporal and returns the machine as it was (block data with its
\* log, precommit registry, round, step, locked, valid, end_time and slash
\* set; the queue); run() then slashes nobody, broadcasts nothing and does
\* not panic; and an iteration that ended in Temporal changed nothing of the
\* node.
C20_WrongHeightDropped ==
  /\ [](\A n \in Nodes : \A msg \in WrongHeight(n) :
          LET r == message(M(n), msg)
          IN /\ r.res.t = "Temporal"
             /\ r.m = M(n)
             /\ AfterMessage(r, msg, FALSE, FALSE, NoBlock) = M(n))
  /\ [][\A n \in Nodes :
          (last'[n].kind = "message" /\ last'[n].res.t = "Temporal") =>
            /\ block'[n] = block[n]
            /\ queue'[n] = queue[n]
            /\ network'[n] = network[n]
            /\ last_end'[n] = last_end[n]
            /\ alive'[n] = alive[n]]_vars

\* C20's case: the machine, at height 2 after finalizing height 1, holding
\* a message in its log, has just been handed a message of another height
\* and dropped it.
C20_Witness ==
  \E n \in Nodes :
    /\ last[n].kind = "message" /\ last[n].res.t = "Temporal"
    /\ alive[n] = "running"
    /\ block[n].number = 2
    /\ network[n].blocks # <<>>
    /\ block[n].log.log # EmptyMap
    /\ block[n].slashes = {}


(***************************************************************************)
(* C21: proposals, from the proposer of their round and from others      *)
(* (lines 470-479).                                                        *)
(***************************************************************************)
\* The machine is validator 2; validator 1 proposes round 0 and validator 3
\* round 2. Proposals of round 0 by validator 3 and of round 2 by validator
\* 1, the proposer's own proposal, and the votes that finalize.
PropPool ==
  {Shape(1, 0, Proposal(NoRound, "X")),
   Shape(3, 0, Proposal(NoRound, "X")),
   Shape(3, 0, Proposal(NoRound, "Y")),
   Shape(1, 2, Proposal(NoRound, "X")),
   Shape(3, 0, Prevote(id("X"))),
   Shape(3, 0, Precommit(id("X"), "ok")),
   Shape(1, 0, Precommit(id("X"), "ok"))}

InitProp == InitSolo(<<1, 1, 2>>, 2, PropPool)
SpecProp == InitProp /\ [][Next]_vars

\* The proposals of the node's height, by a validator that is not the
\* proposer of their round, that node n may receive.
NotByProposer(n) ==
  {msg \in EnvMessages(n) :
     /\ msg.number = block[n].number
     /\ msg.data.step = "Propose"
     /\ msg.sender # proposer(msg.number, msg.round)}

\* The validators whose proposal the log holds for round r.
Proposers(l, r) == Participants(l, r, "Propose")

\* C21: in every reachable state, message() on a proposal of the height that
\* is not by the proposer of its round returns Malicious(sender) and leaves
\* the machine, its log included, as it was; run() then has the sender in
\* the slash set, with nothing else of the block data changed; and every
\* proposal the log holds for a round is by the proposer of that round.
C21_OnlyProposerProposes ==
  \A n \in Nodes :
    /\ \A msg \in NotByProposer(n) :
         LET r == message(M(n), msg)
             after == AfterMessage(r, msg, FALSE, FALSE, NoBlock)
         IN /\ r.res.t = "Malicious"
            /\ r.res.v = msg.sender
            /\ r.m = M(n)
            /\ after.block = [block[n] EXCEPT !.slashes = @ \cup {msg.sender}]
            /\ after.queue = queue[n]
            /\ after.panic = ""
            /\ <<block[n].number, msg.sender>> \in DOMAIN after.network.slash
    /\ \A r \in DOMAIN block[n].log.log :
         Proposers(block[n].log, r) \subseteq {proposer(block[n].number, r)}

\* C21's case: the node has just turned down a proposal that was not by the
\* proposer of its round; the sender is slashed, its votes of the round are
\* in the log, and the only proposal of the round in the log is the
\* proposer's.
C21_Witness ==
  \E n \in Nodes :
    /\ last[n].kind = "message"
    /\ last[n].res.t = "Malicious" /\ last[n].res.why = "proposer"
    /\ last[n].res.v \in block[n].slashes
    /\ 0 \in DOMAIN block[n].log.log
    /\ last[n].res.v \in DOMAIN block[n].log.log[0]
    /\ Proposers(block[n].log, 0) = {proposer(block[n].number, 0)}
    /\ last[n].res.v # proposer(block[n].number, 0)


(***************************************************************************)
(* C22: impl PartialEq for Data (lines 52-62), as MessageLog::log applies  *)
(* it to a message whose round, sender and step the log already holds.     *)
(***************************************************************************)
\* Validator 1's proposal of round 0 with and without a valid round,
\* validator 3's proposals of round 2 for two blocks, its prevotes of round
\* 0, and its precommits of round 1 (whose end time the machine does not
\* know while in round 0) with a good and a bad signature.
EqPool ==
  {Shape(1, 0, Proposal(NoRound, "X")),
   Shape(1, 0, Proposal(0, "X")),
   Shape(3, 2, Proposal(NoRound, "X")),
   Shape(3, 2, Proposal(NoRound, "Y")),
   Shape(3, 0, Prevote(id("X"))),
   Shape(3, 0, Prevote(NoId)),
   Shape(3, 1, Precommit(id("X"), "ok")),
   Shape(3, 1, Precommit(id("X"), "junk")),
   Shape(3, 1, Precommit(NoId, NoSig)),
   Shape(3, 1, Precommit(id("Y"), "ok"))}

InitEq == InitSolo(<<1, 1, 2>>, 2, EqPool)
SpecEq == InitEq /\ [][Next]_vars

\* The block id a Data carries (nil for a vote for nothing).
BlockIdOf(data) == IF data.step = "Propose" THEN id(data.block) ELSE data.id

SameStepAndId(a, b) == a.step = b.step /\ BlockIdOf(a) = BlockIdOf(b)

\* What node n's log holds for the round, sender and step of msg.
Logged(n, msg) == get(block[n].log, msg.round, msg.sender, msg.data.step)

\* C22 as the spec states it: a message whose round, sender and step the log
\* holds is a replay (log returns Ok(false)) exactly when it has the block id
\* of the one held, and equivocation otherwise.
C22_EqualByStepAndId ==
  \A n \in Nodes : \A msg \in EnvMessages(n) :
    Logged(n, msg) # NoData =>
      /\ DataEq(Logged(n, msg), msg.data) <=> SameStepAndId(Logged(n, msg), msg.data)
      /\ log(block[n].log, msg).res.t = "Ok" <=> SameStepAndId(Logged(n, msg), msg.data)

\* C22, amended: two Data are equal exactly when they have the same step and
\* the same block id (or both nil) and, for proposals, the same valid round;
\* a precommit's signature takes no part. A message whose round, sender and
\* step the log holds is a replay when equal to the one held, and
\* equivocation, blamed on its sender, otherwise.
C22_DataEquality ==
  \A n \in Nodes : \A msg \in EnvMessages(n) :
    Logged(n, msg) # NoData =>
      LET held == Logged(n, msg)
          eq == /\ SameStepAndId(held, msg.data)
                /\ msg.data.step = "Propose" => held.vr = msg.data.vr
          res == log(block[n].log, msg).res
      IN /\ DataEq(held, msg.data) <=> eq
         /\ DataEq(msg.data, held) <=> eq
         /\ IF eq THEN res.t = "Ok" /\ res.v = FALSE
            ELSE res.t = "Malicious" /\ res.v = msg.sender /\ res.why = "equivocation"

\* C22's case: validator 1, which sent nothing but its proposal of block X
\* with and without a valid round, has just been found equivocating, while
\* the log holds a precommit of validator 3 that has come again with another
\* signature and been taken for a replay.
C22_Witness ==
  \E n \in Nodes :
    /\ last[n].kind = "message"
    /\ last[n].res.t = "Malicious" /\ last[n].res.why = "equivocation"
    /\ last[n].res.v = 1
    /\ get(block[n].log, 0, 1, "Propose") # NoData
    /\ get(block[n].log, 0, 1, "Propose").block = "X"
    /\ get(block[n].log, 1, 3, "Precommit") # NoData
    /\ \E msg \in EnvMessages(n) :
         /\ msg.sender = 3 /\ msg.round = 1 /\ IsPrecommitSome(msg.data)
         /\ DataEq(Logged(n, msg), msg.data)
         /\ msg.data.sig # Logged(n, msg).sig


(***************************************************************************)
(* C23, C24: the happy path of four validators of weight 1 (threshold 3).  *)
(* Validator 1 (A) proposes block X for (1, 0). Two of the four run as     *)
(* machines: A and validator 4 (D), which like B and C is not the          *)
(* proposer. The votes of B and C for X, as an honest machine casts them,  *)
(* are in flight to both machines from the start, to be received in any    *)
(* order; no timeout fires before the messages arrive.                     *)
(***************************************************************************)
HappyWeights == <<1, 1, 1, 1>>

\* The end time of round 0 of height 1, which every validator computes alike.
HappyEnd == new(1, 0, 10, "X").block.end_time[0]

\* The honest votes of validator v in round 0 of height 1.
HonestVotes(v) ==
  {Message(v, 1, 0, Prevote(id("X"))),
   Message(v, 1, 0, Precommit(id("X"), sign(v, commit_msg(HappyEnd, id("X")))))}

InitHappy ==
  /\ weights = HappyWeights
  /\ block = (1 :> new(1, 0, 10, "X").block @@ 2 :> new(4, 0, 10, "X").block)
  /\ queue = (1 :> new(1, 0, 10, "X").queue @@ 2 :> new(4, 0, 10, "X").queue)
  /\ network = (1 :> new(1, 0, 10, "X").network @@ 2 :> new(4, 0, 10, "X").network)
  /\ last_end = (1 :> 10 @@ 2 :> 10)
  /\ msg_recv = (1 :> HonestVotes(2) \cup HonestVotes(3) @@
                 2 :> HonestVotes(2) \cup HonestVotes(3))
  /\ step_recv = (1 :> <<>> @@ 2 :> <<>>)
  /\ alive = (1 :> "running" @@ 2 :> "running")
  /\ env = [pool |-> {}, inbound |-> 0, commits |-> 0, heights |-> 1, rounds |-> 0]
  /\ last = (1 :> Event("new", Ok(NoBlock), "") @@ 2 :> Event("new", Ok(NoBlock), ""))

NextHappy ==
  \/ \E n \in Machines : RunQueue(n)
  \/ \E n \in Machines : RunDelivered(n)

SpecHappy == InitHappy /\ [][NextHappy]_vars

\* Node n has an iteration to run: a message of its own, or a received one.
HappyEnabled(n) == Running(n) /\ (queue[n] # <<>> \/ msg_recv[n] # {})

\* The step taken is an iteration of node n: it popped its queue or took a
\* message from its channel.
HappyIterates(n) ==
  n \in Nodes /\ (queue'[n] # queue[n] \/ msg_recv[n] \ msg_recv'[n] # {})

\* run() is polled while it has a message of its own or a received one:
\* weak fairness of each node's iteration, its enabling condition written
\* as the state predicate it is.
SpecHappyFair ==
  /\ SpecHappy
  /\ \A n \in Machines : []<>(~HappyEnabled(n)) \/ []<><<HappyIterates(n)>>_vars

\* Node n has handed block X to add_block for height 1.
AddedX(n) ==
  /\ n \in Nodes
  /\ Len(network[n].blocks) = 1
  /\ network[n].blocks[1].number = 1
  /\ network[n].blocks[1].block = "X"

Commits(n) == {network[n].blocks[i].commit : i \in 1 .. Len(network[n].blocks)}

\* C24 as the spec states it: the commit a machine passes to add_block on
\* the happy path lists the four validators.
C24_CommitListsAllFour ==
  \A n \in Nodes : \A commit \in Commits(n) : commit.validators = Validators

\* C24, amended: the commit a machine passes to add_block on the happy path
\* lists exactly three of the four validators, those whose precommit for X
\* it had logged when the third one completed the quorum; it carries their
\* signatures over round 0's end time and X's id, and it verifies.
C24_CommitListsQuorum ==
  \A n \in Nodes : \A commit \in Commits(n) :
    /\ commit.validators \subseteq Validators
    /\ Cardinality(commit.validators) = 3
    /\ SumOver(weights, commit.validators) = threshold
    /\ commit.end_time = HappyEnd
    /\ \A v \in commit.validators :
         commit.signature[v] = sign(v, commit_msg(HappyEnd, id("X")))
    /\ verify_commit(id("X"), commit)

\* C24's case: both machines have called add_block with X, all four
\* validators having precommitted X: A's and D's precommits were broadcast,
\* B's and C's were received; the two commits list different validators.
C24_Witness ==
  /\ \A n \in Machines : AddedX(n)
  /\ \A n \in Machines :
       \E msg \in network[n].broadcast :
         msg.sender = block[n].validator_id /\ IsPrecommitSome(msg.data)
  /\ network[1].blocks[1].commit.validators # network[2].blocks[1].commit.validators


(***************************************************************************)
(* C25: who is listed in the commit run() assembles (lines 401-420), and   *)
(* with which signature.                                                   *)
(***************************************************************************)
\* Round 0 of a height in which validators 1 and 3 also precommit X in
\* round 1; the machine (validator 2) does not know round 1's end time while
\* it is in round 0.
MemberPool ==
  {Shape(1, 0, Proposal(NoRound, "X")),
   Shape(3, 0, Prevote(id("X"))),
   Shape(3, 0, Precommit(id("X"), "ok")),
   Shape(1, 0, Precommit(id("X"), "ok")),
   Shape(1, 1, Precommit(id("X"), "ok")),
   Shape(3, 1, Precommit(id("X"), "ok"))}

InitMember == InitSolo(<<1, 1, 2>>, 2, MemberPool)
SpecMember == InitMember /\ [][Next]_vars

\* The validators whose Precommit(Some(i, _)) log l holds for round r.
Precommitters(l, r, i) ==
  {v \in Validators :
     /\ IsPrecommitSome(get(l, r, v, "Precommit"))
     /\ get(l, r, v, "Precommit").id = i}

\* C25: whenever message() returns a block for a message of round r whose
\* end time is known, the commit run() assembles lists exactly the validators
\* whose Precommit(Some(block id, _)) the log holds for round r, each with
\* the signature of that precommit.
C25_CommitMembership ==
  \A n \in Live : \A f \in Finalizations(n) :
    LET r == message(f.m, f.msg)
        l == r.m.block.log
        commit == AssembleCommit(r.m.block, f.msg, r.res.v)
        members == Precommitters(l, f.msg.round, id(r.res.v))
    IN f.msg.round \in DOMAIN r.m.block.end_time =>
         /\ commit.validators = members
         /\ \A v \in commit.validators \cap members :
              commit.signature[v] = get(l, f.msg.round, v, "Precommit").sig


(***************************************************************************)
(* C26: the finalizer (lines 483-500) and the commit run() makes of its    *)
(* result (lines 415-423), for rounds below, at and above the current one. *)
(***************************************************************************)
\* What node n's next iteration may run message() on: its own queued
\* message, popped, if there is one, else any inbound message of its height.
NextMessages(n) ==
  IF queue[n] # <<>>
  THEN {[m |-> [M(n) EXCEPT !.queue = Tail(@)], msg |-> Head(queue[n]), own |-> TRUE]}
  ELSE {[m |-> M(n), msg |-> msg, own |-> FALSE] : msg \in HeightMessages(n)}

\* Log l holds the proposal of round r's proposer and precommits for its
\* block of weight threshold() or more.
Finalizable(b, r) ==
  LET prop == get(b.log, r, proposer(b.number, r), "Propose")
  IN prop # NoData /\ has_consensus(b.log, r, Precommit(id(prop.block), NoSig))

\* C26: whenever message() has newly logged a Proposal or Precommit of round
\* r and the log then holds round r's proposal and a precommit quorum for its
\* block, message() returns that block and run() hands it to add_block with
\* a commit whose end time is round r's canonical end time, and moves to the
\* next height, without a panic: for r below, at and above the current round.
C26_FinalizeAtAnyRound ==
  \A n \in Live : \A f \in NextMessages(n) :
    LET r == message(f.m, f.msg)
        after == AfterMessage(r, f.msg, f.own, FALSE, "X")
        prop == get(r.m.block.log, f.msg.round,
                    proposer(block[n].number, f.msg.round), "Propose")
    IN (/\ f.msg.data.step \in {"Propose", "Precommit"}
        /\ r.res.t = "Ok"
        /\ ~Holds(block[n].log, f.msg) /\ Holds(r.m.block.log, f.msg)
        /\ Finalizable(r.m.block, f.msg.round))
       => /\ r.res.v = prop.block
          /\ after.panic = ""
          /\ after.block.number = block[n].number + 1
          /\ Len(after.network.blocks) = Len(network[n].blocks) + 1
          /\ after.network.blocks[Len(after.network.blocks)].block = prop.block
          /\ after.network.blocks[Len(after.network.blocks)].commit.end_time
               = CanonicalEnd(block[n], f.msg.round)


(***************************************************************************)
(* C27: the first vote of a round by a machine that holds a lock (lines    *)
(* 561-597).                                                               *)
(***************************************************************************)
\* Inbound messages the environment hands to the run of the locked machine.
LockInbound == 6

\* The machine (validator 2) locks X in round 0 on validator 1's proposal
\* and validator 3's prevote. Validators 1 and 3 prevote Y in round 1, and
\* validator 3, the proposer of round 2, proposes Y there, with valid round
\* 1 or with none; validator 1's nil prevote of round 2 completes the skip.
LockPool ==
  {Shape(1, 0, Proposal(NoRound, "X")),
   Shape(3, 0, Prevote(id("X"))),
   Shape(1, 1, Prevote(id("Y"))),
   Shape(3, 1, Prevote(id("Y"))),
   Shape(3, 2, Proposal(1, "Y")),
   Shape(3, 2, Proposal(NoRound, "Y")),
   Shape(1, 2, Prevote(NoId))}

InitLock ==
  /\ weights = <<1, 1, 2>>
  /\ block = (1 :> new(2, 0, 10, "X").block)
  /\ queue = (1 :> new(2, 0, 10, "X").queue)
  /\ network = (1 :> new(2, 0, 10, "X").network)
  /\ last_end = (1 :> 10)
  /\ msg_recv = (1 :> {})
  /\ step_recv = (1 :> <<>>)
  /\ alive = (1 :> "running")
  /\ env = [pool |-> LockPool, inbound |-> LockInbound, commits |-> 0,
            heights |-> 1, rounds |-> MaxRound]
  /\ last = (1 :> Event("new", Ok(NoBlock), ""))

\* The step channel stays silent.
NextLock ==
  \/ \E n \in Machines : RunQueue(n)
  \/ \E n \in Machines : RunTimeout(n)
  \/ \E n \in Machines : RunMessage(n)

SpecLock == InitLock /\ [][NextLock]_vars

\* The Data of the prevotes that message() queued, given the queue before
\* and the queue after.
QueuedPrevotes(before, after) ==
  {after[i].data : i \in {j \in Len(before) + 1 .. Len(after) : after[j].data.step = "Prevote"}}

\* The proposal of the current round of block data b lets a machine locked
\* at or before its valid round vote for it: it carries a valid round vr with
\* locked round <= vr < current round, the log holds a prevote quorum for its
\* block at round vr, and the block validates.
Unlocks(b) ==
  LET prop == get(b.log, b.round.number, proposer(b.number, b.round.number), "Propose")
  IN /\ prop # NoData
     /\ prop.vr # NoRound
     /\ b.locked.round <= prop.vr /\ prop.vr < b.round.number
     /\ HasRound(b.log, prop.vr)
     /\ has_consensus(b.log, prop.vr, Prevote(id(prop.block)))
     /\ validate(prop.block) = "Ok"

\* C27: for a node that holds a lock, every prevote message() queues is for
\* the locked id, or nil, or for the block of the current round's proposal
\* when that proposal unlocks; and when a proposal for another block than
\* the locked one unlocks and the node, in step Propose, handles a new
\* message of its round, it prevotes that block.
C27_LockRule ==
  \A n \in Live : \A f \in NextMessages(n) :
    LET r == message(f.m, f.msg)
        b == r.m.block
        votes == QueuedPrevotes(f.m.queue, r.m.queue)
        prop == get(b.log, b.round.number, proposer(b.number, b.round.number), "Propose")
        fresh == \/ block[n].round.number < b.round.number
                 \/ block[n].round.step = "Propose"
    IN (block[n].locked # NoLocked /\ r.m.panic = "") =>
         /\ b.locked = block[n].locked
         /\ \A d \in votes :
              \/ d.id = NoId
              \/ d.id = b.locked.id
              \/ Unlocks(b) /\ d.id = id(prop.block)
         /\ (/\ Unlocks(b) /\ id(prop.block) # b.locked.id
             /\ fresh /\ f.msg.round = b.round.number
             /\ r.res.t = "Ok" /\ r.res.why # "replay")
            => votes = {Prevote(id(prop.block))}

\* C27's case: the machine, locked on X at round 0, is in round 2, where the
\* proposal is Y with valid round 1 and round 1 holds a prevote quorum for
\* Y; it has queued its prevote for Y.
C27_Witness ==
  \E n \in Nodes :
    /\ alive[n] = "running"
    /\ block[n].locked = [round |-> 0, id |-> id("X")]
    /\ block[n].round.number = 2
    /\ get(block[n].log, 2, 3, "Propose") = Proposal(1, "Y")
    /\ has_consensus(block[n].log, 1, Prevote(id("Y")))
    /\ queue[n] # <<>>
    /\ queue[n][Len(queue[n])] = Message(2, 1, 2, Prevote(id("Y")))


\* The machine (validator 2) in round 0, whose proposer, validator 1, sends
\* its proposal of X with no valid round, with valid round 0 and with valid
\* round 1, next to validator 3's prevote and the precommits of validators
\* 1 and 3 for X, which finalize it.
MalformedPool ==
  {Shape(1, 0, Proposal(NoRound, "X")),
   Shape(1, 0, Proposal(0, "X")),
   Shape(1, 0, Proposal(1, "X")),
   Shape(3, 0, Prevote(id("X"))),
   Shape(3, 0, Precommit(id("X"), "ok")),
   Shape(1, 0, Precommit(id("X"), "ok"))}

InitMalformed ==
  /\ weights = <<1, 1, 2>>
  /\ block = (1 :> new(2, 0, 10, "X").block)
  /\ queue = (1 :> new(2, 0, 10, "X").queue)
  /\ network = (1 :> new(2, 0, 10, "X").network)
  /\ last_end = (1 :> 10)
  /\ msg_recv = (1 :> {})
  /\ step_recv = (1 :> <<>>)
  /\ alive = (1 :> "running")
  /\ env = [pool |-> MalformedPool, inbound |-> MaxInbound, commits |-> 0,
            heights |-> 1, rounds |-> MaxRound]
  /\ last = (1 :> Event("new", Ok(NoBlock), ""))

SpecMalformed == InitMalformed /\ [][NextLock]_vars

\* The proposals node n may receive from the proposer of its current round,
\* for that round, with a valid round that is not below it.
Malformed(n) ==
  {msg \in HeightMessages(n) :
     /\ msg.round = block[n].round.number
     /\ msg.data.step = "Propose"
     /\ msg.sender = proposer(msg.number, msg.round)
     /\ msg.data.vr # NoRound /\ msg.data.vr >= block[n].round.number}

\* Node n's log holds precommits of threshold() weight for block blk in its
\* current round.
PrecommitQuorum(n, blk) ==
  /\ HasRound(block[n].log, block[n].round.number)
  /\ has_consensus(block[n].log, block[n].round.number, Precommit(id(blk), NoSig))

\* C28 as the spec states it, for a proposal the log does not hold yet (a
\* replay is dropped before any vote is considered): in step Propose, the
\* proposer's proposal of the round with a valid round not below the round
\* yields Malicious, and no prevote is queued.
C28_MalformedIsMalicious ==
  \A n \in Live : \A msg \in Malformed(n) :
    (block[n].round.step = "Propose" /\ queue[n] = <<>> /\ Logged(n, msg) = NoData) =>
      /\ message(M(n), msg).res.t = "Malicious"
      /\ QueuedPrevotes(queue[n], message(M(n), msg).m.queue) = {}

\* C28, amended: in step Propose, such a proposal, when the log holds no
\* proposal of the proposer for the round and no precommit quorum for its
\* block, yields Malicious(sender), queues no vote and leaves the step, and
\* run() slashes the sender; when the log holds a precommit quorum for its
\* block, the finalizer comes first and message() returns the block; in
\* neither case is a prevote queued.
C28_MalformedValidRound ==
  \A n \in Live : \A msg \in Malformed(n) :
    (block[n].round.step = "Propose" /\ queue[n] = <<>> /\ Logged(n, msg) = NoData) =>
      LET r == message(M(n), msg)
          after == AfterMessage(r, msg, FALSE, FALSE, "X")
      IN /\ QueuedPrevotes(queue[n], r.m.queue) = {}
         /\ IF PrecommitQuorum(n, msg.data.block)
            THEN r.res.t = "Ok" /\ r.res.v = msg.data.block
            ELSE /\ r.res.t = "Malicious" /\ r.res.v = msg.sender
                 /\ r.m.queue = queue[n]
                 /\ r.m.block.round = block[n].round
                 /\ msg.sender \in after.block.slashes

\* C28's case: the node, in step Propose of round 0, has just answered the
\* proposer's proposal with valid round 0 or 1 Malicious and slashed it; the
\* proposal is in the log, next to votes of others, and nothing is queued.
C28_Witness ==
  \E n \in Nodes :
    /\ last[n].kind = "message"
    /\ last[n].res.t = "Malicious" /\ last[n].res.why = "valid_round"
    /\ last[n].res.v = proposer(block[n].number, block[n].round.number)
    /\ last[n].res.v \in block[n].slashes
    /\ block[n].round.step = "Propose"
    /\ get(block[n].log, block[n].round.number, last[n].res.v, "Propose") # NoData
    /\ get(block[n].log, block[n].round.number, last[n].res.v, "Propose").vr
         >= block[n].round.number
    /\ get(block[n].log, block[n].round.number, 3, "Prevote") # NoData
    /\ queue[n] = <<>>


\* The machine (validator 2) and what it needs to meet a prevote quorum for
\* the proposal in each step: validator 1's proposal of round 0, of X or of
\* the fatally invalid F, the prevotes of validators 1 and 3 for either, and
\* their prevotes for X in round 1, where the machine is the proposer.
ValidPool ==
  {Shape(1, 0, Proposal(NoRound, "X")),
   Shape(1, 0, Proposal(NoRound, "F")),
   Shape(3, 0, Prevote(id("X"))),
   Shape(1, 0, Prevote(id("X"))),
   Shape(3, 0, Prevote(id("F"))),
   Shape(1, 0, Prevote(id("F"))),
   Shape(3, 1, Prevote(id("X"))),
   Shape(1, 1, Prevote(id("X")))}

InitValid ==
  /\ weights = <<1, 1, 2>>
  /\ block = (1 :> new(2, 0, 10, "X").block)
  /\ queue = (1 :> new(2, 0, 10, "X").queue)
  /\ network = (1 :> new(2, 0, 10, "X").network)
  /\ last_end = (1 :> 10)
  /\ msg_recv = (1 :> {})
  /\ step_recv = (1 :> <<>>)
  /\ alive = (1 :> "running")
  /\ env = [pool |-> ValidPool, inbound |-> MaxInbound, commits |-> 0,
            heights |-> 1, rounds |-> MaxRound]
  /\ last = (1 :> Event("new", Ok(NoBlock), ""))

SpecValid == InitValid /\ [][NextLock]_vars

\* Block data b holds the proposal of its current round's proposer and
\* prevotes for that proposal's block, in the current round, of weight
\* threshold() or more.
PrevoteQuorum(b) ==
  LET prop == get(b.log, b.round.number, proposer(b.number, b.round.number), "Propose")
  IN /\ prop # NoData
     /\ HasRound(b.log, b.round.number)
     /\ has_consensus(b.log, b.round.number, Prevote(id(prop.block)))

\* message() on f, a queued or received message of the current round, logs
\* it and gets as far as lines 36-43: the machine is past step Propose, its
\* valid is unset or of an earlier round, the message neither finalizes nor
\* is turned down before the log, and with it the log holds the round's
\* proposal and a prevote quorum for its block.
RuleReached(f) ==
  LET b == f.m.block
      r == message(f.m, f.msg)
  IN /\ f.msg.round = b.round.number
     /\ r.m.block.log # b.log
     /\ ~Finalizes(r)
     /\ b.round.step \in {"Prevote", "Precommit"}
     /\ b.valid = NoValid \/ b.valid.round < b.round.number
     /\ PrevoteQuorum(r.m.block)

\* What lines 36-43 do to the machine of f for proposal prop.
RuleApplied(f, prop) ==
  LET b == f.m.block
      r == message(f.m, f.msg)
      cur == b.round.number
      pid == id(prop.block)
  IN /\ r.res.t = "Ok" /\ ~Finalizes(r)
     /\ r.m.block.valid = [round |-> cur, block |-> prop.block]
     /\ b.round.step = "Prevote" =>
          /\ r.m.block.locked = [round |-> cur, id |-> pid]
          /\ r.m.block.round.step = "Precommit"
          /\ r.m.queue =
               Append(f.m.queue,
                      Message(b.validator_id, b.number, cur,
                              Precommit(pid, sign(b.validator_id,
                                                  commit_msg(b.end_time[cur], pid)))))
     /\ b.round.step = "Precommit" =>
          /\ r.m.block.locked = b.locked
          /\ r.m.block.round.step = "Precommit"
          /\ r.m.queue = f.m.queue

\* C29 as the spec states it: whenever message() reaches lines 36-43 with
\* the proposal and the prevote quorum in the log, it sets valid, and locks
\* and precommits in step Prevote.
C29_SetValidAlways ==
  \A n \in Live : \A f \in NextMessages(n) :
    RuleReached(f) =>
      RuleApplied(f, get(message(f.m, f.msg).m.block.log, f.m.block.round.number,
                         proposer(f.m.block.number, f.m.block.round.number), "Propose"))

\* C29, amended: the same for a proposal whose block validate() does not
\* find fatally invalid; for one it does, message() returns
\* Malicious(proposer) and valid, locked, step and queue stay. Once valid is
\* of the current round, no message of the round changes valid or locked or
\* queues a precommit for a block; valid and locked are never of a round
\* above the current one; and the machine never waits for a message with the
\* rule due (past step Propose, quorum in the log, valid not of the round,
\* block not fatally invalid, nothing queued).
C29_SetValidLockPrecommit ==
  \A n \in Live :
    /\ block[n].valid.round <= block[n].round.number
    /\ block[n].locked.round <= block[n].valid.round
    /\ (/\ queue[n] = <<>>
        /\ block[n].round.step \in {"Prevote", "Precommit"}
        /\ PrevoteQuorum(block[n])
        /\ validate(get(block[n].log, block[n].round.number,
                        proposer(block[n].number, block[n].round.number), "Propose").block) # "Fatal")
       => block[n].valid.round = block[n].round.number
    /\ \A f \in NextMessages(n) :
         LET b == f.m.block
             r == message(f.m, f.msg)
             cur == b.round.number
             prop == get(r.m.block.log, cur, proposer(b.number, cur), "Propose")
         IN /\ RuleReached(f) =>
                 IF validate(prop.block) # "Fatal"
                 THEN RuleApplied(f, prop)
                 ELSE /\ r.res.t = "Malicious" /\ r.res.v = proposer(b.number, cur)
                      /\ r.m.block.valid = b.valid /\ r.m.block.locked = b.locked
                      /\ r.m.block.round.number = cur
                      /\ r.m.block.round.step = b.round.step /\ r.m.queue = f.m.queue
            /\ (b.valid.round = cur /\ r.m.block.number = b.number
                /\ r.m.block.round.number = cur /\ r.m.panic = "") =>
                 /\ r.m.block.valid = b.valid /\ r.m.block.locked = b.locked
                 /\ \A i \in Len(f.m.queue) + 1 .. Len(r.m.queue) :
                      r.m.queue[i].data.step = "Precommit" => r.m.queue[i].data.id = NoId

\* C29's case: the machine set valid and locked on X in round 0, skipped to
\* round 1, which it proposes, proposed X with valid round 0, and on the
\* prevote quorum of round 1 set valid and locked again and queued its
\* precommit for X.
C29_Witness ==
  \E n \in Nodes :
    /\ alive[n] = "running"
    /\ block[n].round.number = 1
    /\ block[n].valid = [round |-> 1, block |-> "X"]
    /\ block[n].locked = [round |-> 1, id |-> id("X")]
    /\ get(block[n].log, 1, 2, "Propose") = Proposal(0, "X")
    /\ get(block[n].log, 0, 2, "Precommit") # NoData
    /\ queue[n] # <<>>
    /\ queue[n][Len(queue[n])].data.step = "Precommit"
    /\ queue[n][Len(queue[n])].data.id = id("X")


\* The machine (validator 2) and the nil prevotes of validators 1 and 3 in
\* rounds 0 and 1, which may be logged before it has voted itself, next to
\* validator 1's proposal of round 0 and validator 3's prevote for it; in
\* round 1 the machine is the proposer.
NilPool ==
  {Shape(1, 0, Proposal(NoRound, "X")),
   Shape(3, 0, Prevote(NoId)),
   Shape(1, 0, Prevote(NoId)),
   Shape(3, 0, Prevote(id("X"))),
   Shape(3, 0, Precommit(NoId, NoSig)),
   Shape(3, 1, Prevote(NoId)),
   Shape(1, 1, Prevote(NoId))}

InitNil ==
  /\ weights = <<1, 1, 2>>
  /\ block = (1 :> new(2, 0, 10, "X").block)
  /\ queue = (1 :> new(2, 0, 10, "X").queue)
  /\ network = (1 :> new(2, 0, 10, "X").network)
  /\ last_end = (1 :> 10)
  /\ msg_recv = (1 :> {})
  /\ step_recv = (1 :> <<>>)
  /\ alive = (1 :> "running")
  /\ env = [pool |-> NilPool, inbound |-> MaxInbound, commits |-> 0,
            heights |-> 1, rounds |-> MaxRound]
  /\ last = (1 :> Event("new", Ok(NoBlock), ""))

SpecNil == InitNil /\ [][NextLock]_vars

\* The weight of the Prevote(None) messages block data b holds for its
\* current round.
NilWeight(b) ==
  IF HasRound(b.log, b.round.number)
  THEN message_instances(b.log, b.round.number, Prevote(NoId))[2]
  ELSE 0

\* C30: when message() handles a message with the step Prevote at the check
\* and ends with nil prevotes of weight threshold() or more in the current
\* round's log, it has queued Precommit(None), and that only, and the step
\* is Precommit; and a machine with nothing queued is never in step Prevote
\* with such a quorum in its log.
C30_NilPrevoteQuorum ==
  \A n \in Live :
    /\ (queue[n] = <<>> /\ block[n].round.step = "Prevote") => NilWeight(block[n]) < threshold
    /\ \A f \in NextMessages(n) :
         LET b == f.m.block
             r == message(f.m, f.msg)
         IN (/\ b.round.step = "Prevote"
             /\ r.m.panic = "" /\ r.res.t = "Ok"
             /\ r.m.block.number = b.number
             /\ r.m.block.round.number = b.round.number
             /\ NilWeight(r.m.block) >= threshold)
            => /\ r.m.block.round.step = "Precommit"
               /\ r.m.queue = Append(f.m.queue,
                                     Message(b.validator_id, b.number, b.round.number,
                                             Precommit(NoId, NoSig)))

\* C30's case: the nil prevotes of validators 1 and 3 were in round 0's log
\* before the machine voted; it prevoted for the proposal, and on handling
\* its own prevote it queued Precommit(None).
C30_Witness ==
  \E n \in Nodes :
    /\ alive[n] = "running"
    /\ last[n].kind = "queue"
    /\ block[n].round.number = 0
    /\ block[n].round.step = "Precommit"
    /\ get(block[n].log, 0, 2, "Prevote") = Prevote(id("X"))
    /\ get(block[n].log, 0, 1, "Prevote") = Prevote(NoId)
    /\ get(block[n].log, 0, 3, "Prevote") = Prevote(NoId)
    /\ queue[n] = <<Message(2, 1, 0, Precommit(NoId, NoSig))>>


(***************************************************************************)
(* C31..C40: timeouts, quorum arithmetic, the machine's own votes, blame,   *)
(* the lock and the log's rounds.                                          *)
(***************************************************************************)
\* C31: when the timeout of step s fires at a validator, s leaves the
\* round's timeouts (on a precommit timeout with the round itself); if the
\* round is in another step, nothing else changes; in step Propose the
\* proposer of the round is slashed and Prevote(None) queued; in step
\* Prevote Precommit(None) is queued; in step Precommit the machine enters
\* the next round, which starts at the end time of the one it leaves, as
\* round() enters it: proposing, or with the propose timeout armed.
C31_TimeoutHandling ==
  [][\A n \in Nodes :
       RunTimeout(n) =>
         LET b == block[n]
             a == block'[n]
             s == EarliestTimeout(b.round)
             r == b.round.number
             rest == [b.round EXCEPT !.timeouts = @ \ {s}]
             own(data) == <<Message(b.validator_id, b.number, r, data)>>
         IN /\ alive'[n] = "running"
            /\ IF b.round.step # s
               THEN /\ a = [b EXCEPT !.round = rest]
                    /\ queue'[n] = <<>> /\ network'[n] = network[n]
               ELSE CASE s = "Propose" ->
                           /\ a = [b EXCEPT !.round = [rest EXCEPT !.step = "Prevote"],
                                            !.slashes = @ \cup {proposer(b.number, r)}]
                           /\ queue'[n] = own(Prevote(NoId))
                           /\ <<b.number, proposer(b.number, r)>> \in DOMAIN network'[n].slash
                      [] s = "Prevote" ->
                           /\ a = [b EXCEPT !.round = [rest EXCEPT !.step = "Precommit"]]
                           /\ queue'[n] = own(Precommit(NoId, NoSig))
                           /\ network'[n] = network[n]
                      [] s = "Precommit" ->
                           /\ a.round.number = r + 1
                           /\ a.round.start_time = b.end_time[r]
                           /\ a.round.step = "Propose"
                           /\ a.end_time = Insert(b.end_time, r + 1, RoundEndTime(a.round))
                           /\ a = [b EXCEPT !.round = a.round, !.end_time = a.end_time]
                           /\ network'[n] = network[n]
                           /\ IF proposer(b.number, r + 1) = b.validator_id
                              THEN /\ a.round.timeouts = {}
                                   /\ Len(queue'[n]) = 1
                                   /\ queue'[n][1].round = r + 1
                                   /\ queue'[n][1].data.step = "Propose"
                              ELSE /\ a.round.timeouts = {"Propose"}
                                   /\ queue'[n] = <<>>]_vars

\* C31's case: the propose timeout of round 0 slashed the proposer, the
\* prevote timeout fired too, and the precommit timeout has just taken the
\* machine into round 1, which starts at round 0's end time.
C31_Witness ==
  \E n \in Nodes :
    /\ alive[n] = "running"
    /\ last[n].kind = "timeout"
    /\ block[n].round.number = 1
    /\ block[n].round.start_time = block[n].end_time[0]
    /\ proposer(block[n].number, 0) \in block[n].slashes
    /\ get(block[n].log, 0, block[n].validator_id, "Prevote") = Prevote(NoId)
    /\ get(block[n].log, 0, block[n].validator_id, "Precommit") = Precommit(NoId, NoSig)


\* The validators with at least one message stored in log l for round r.
Senders(l, r) ==
  IF r \in DOMAIN l.log THEN {p \in DOMAIN l.log[r] : DOMAIN l.log[r][p] # {}} ELSE {}

\* C32: in every reachable state and for every round, round_participation
\* is the weight of the validators with a message stored in the log for the
\* round.
C32_RoundParticipation ==
  \A n \in Nodes : \A r \in 0 .. MaxRound :
    round_participation(block[n].log, r) = SumOver(weights, Senders(block[n].log, r))


(***************************************************************************)
(* C33: Weights::threshold and Weights::fault_thresold on u64 (ext.rs      *)
(* 32-39). A u64 is four limbs of 16 bits, the most significant first.     *)
(* total_weight() * 2 may exceed u64: with overflow checks the call        *)
(* panics, without them the product wraps.                                 *)
(***************************************************************************)
RECURSIVE MulFrom(_, _, _, _)
\* Limbs 1..i of a times k plus carry c, from limb i upwards
MulFrom(a, k, i, c) ==
  IF i = 0 THEN [val |-> <<>>, carry |-> c]
  ELSE LET p == a[i] * k + c
           up == MulFrom(a, k, i - 1, p \div Limb)
       IN [val |-> Append(up.val, p % Limb), carry |-> up.carry]

RECURSIVE DivFrom(_, _, _, _)
\* a / d from limb i downwards, r the remainder so far
DivFrom(a, d, i, r) ==
  IF i > Len(a) THEN <<>>
  ELSE <<(r * Limb + a[i]) \div d>> \o DivFrom(a, d, i + 1, (r * Limb + a[i]) % d)

RECURSIVE SubFrom(_, _, _, _)
\* a - b on limbs 1..i with borrow, wrapping
SubFrom(a, b, i, borrow) ==
  IF i = 0 THEN <<>>
  ELSE LET p == a[i] - b[i] - borrow
       IN Append(SubFrom(a, b, i - 1, IF p < 0 THEN 1 ELSE 0),
                 IF p < 0 THEN p + Limb ELSE p)

Less(a, b) == \E i \in 1 .. Len(a) : a[i] < b[i] /\ \A j \in 1 .. i - 1 : a[j] = b[j]
AddOne(a) == MulFrom(a, 1, Len(a), 1).val

\* The u64 of k units of weight
Units(k) == MulFrom(env.unit, k, 4, 0)
\* Weights::total_weight, as the host returns it
total_weight_u64 == Units(total_weight).val

\* Weights::threshold: ((total_weight() * 2) / 3) + 1
threshold_u64 ==
  LET twice == MulFrom(total_weight_u64, 2, 4, 0)
  IN [panic |-> twice.carry # 0 /\ env.build = "checked",
      v |-> AddOne(DivFrom(twice.val, 3, 1, 0))]

\* Weights::fault_thresold: (total_weight() - threshold()) + 1
fault_thresold_u64 ==
  [panic |-> threshold_u64.panic,
   v |-> AddOne(SubFrom(total_weight_u64, threshold_u64.v, 4, 0))]

\* Three validators hold 1..MaxUnits units of weight each; a unit is 1,
\* 2^16 or 2^61, and the total fits a u64. The build has overflow checks or
\* not. No machine runs.
InitQuorum ==
  /\ weights \in [1 .. 3 -> 1 .. MaxUnits]
  /\ env \in [unit : {<<0, 0, 0, 1>>, <<0, 0, 1, 0>>, <<8192, 0, 0, 0>>},
              build : {"checked", "wrapping"}]
  /\ Units(total_weight).carry = 0
  /\ block = <<>> /\ queue = <<>> /\ network = <<>> /\ last_end = <<>>
  /\ msg_recv = <<>> /\ step_recv = <<>> /\ alive = <<>>
  /\ last = <<>>

\* The machine's calls of threshold() and fault_thresold()
Thresholds ==
  /\ last = <<>>
  /\ last' = <<[threshold |-> threshold_u64, fault_thresold |-> fault_thresold_u64]>>
  /\ UNCHANGED <<weights, env, block, queue, network, last_end, msg_recv, step_recv, alive>>

SpecQuorum == InitQuorum /\ [][Thresholds]_vars

\* floor(2T/3) + 1 and floor((T-1)/3) + 1 of the total weight T, computed
\* with a fifth limb, and the weight of a set of validators.
ExactThreshold ==
  LET twice == MulFrom(total_weight_u64, 2, 4, 0)
  IN AddOne(DivFrom(<<twice.carry>> \o twice.val, 3, 1, 0))
ExactFault == AddOne(DivFrom(SubFrom(total_weight_u64, <<0, 0, 0, 1>>, 4, 0), 3, 1, 0))
WeightOf(S) == Units(SumOver(weights, S)).val

\* C33: threshold() is floor(2T/3) + 1 and at most T, fault_thresold() is
\* T - threshold() + 1 = floor((T-1)/3) + 1, and two sets of validators of
\* weight threshold() or more each share weight fault_thresold() or more,
\* for every total weight.
C33_QuorumArithmetic ==
  last # <<>> =>
    LET t == last[1].threshold
        f == last[1].fault_thresold
    IN /\ ~t.panic /\ ~f.panic
       /\ <<0>> \o t.v = ExactThreshold
       /\ ~Less(total_weight_u64, t.v)
       /\ f.v = AddOne(SubFrom(total_weight_u64, t.v, 4, 0))
       /\ f.v = ExactFault
       /\ \A A, B \in SUBSET Validators :
            (~Less(WeightOf(A), t.v) /\ ~Less(WeightOf(B), t.v))
              => ~Less(WeightOf(A \cap B), f.v)


\* The machine (validator 2) locks and precommits X in round 0 on validator
\* 1's proposal and validator 3's prevote. Validators 1 and 3, which saw no
\* quorum in round 0, go on; validator 3, the proposer of round 2, proposes
\* Y there, and both prevote it.
RelockPool ==
  {Shape(1, 0, Proposal(NoRound, "X")),
   Shape(3, 0, Prevote(id("X"))),
   Shape(3, 2, Proposal(NoRound, "Y")),
   Shape(1, 2, Prevote(id("Y"))),
   Shape(3, 2, Prevote(id("Y")))}

InitRelock ==
  /\ weights = <<1, 1, 2>>
  /\ block = (1 :> new(2, 0, 10, "X").block)
  /\ queue = (1 :> new(2, 0, 10, "X").queue)
  /\ network = (1 :> new(2, 0, 10, "X").network)
  /\ last_end = (1 :> 10)
  /\ msg_recv = (1 :> {})
  /\ step_recv = (1 :> <<>>)
  /\ alive = (1 :> "running")
  /\ env = [pool |-> RelockPool, inbound |-> LockInbound, commits |-> 0,
            heights |-> 1, rounds |-> MaxRound]
  /\ last = (1 :> Event("new", Ok(NoBlock), ""))

SpecRelock == InitRelock /\ [][NextLock]_vars

\* The ids of the blocks node n has precommitted in its height: those of its
\* own precommits in the log.
OwnPrecommitIds(n) ==
  {get(block[n].log, r, block[n].validator_id, "Precommit").id :
     r \in {q \in DOMAIN block[n].log.log :
              IsPrecommitSome(get(block[n].log, q, block[n].validator_id, "Precommit"))}}

\* C34: a node that has precommitted a block in its height queues no
\* precommit for another block, and never panics over a message of its own.
C34_OnePrecommitPerHeight ==
  \A n \in Nodes :
    /\ \A i \in 1 .. Len(queue[n]) :
         (queue[n][i].number = block[n].number /\ IsPrecommitSome(queue[n][i].data))
           => OwnPrecommitIds(n) \subseteq {queue[n][i].data.id}
    /\ last[n].panic # "honest node had invalid behavior"


\* C35: whenever message() returns Malicious over a proposal of the current
\* round whose valid round is not below the round, the validator it names
\* is the proposer of the round, the sender of that proposal.
C35_BlameTheProposer ==
  \A n \in Live : \A msg \in HeightMessages(n) :
    LET r == message(M(n), msg)
    IN (r.res.t = "Malicious" /\ r.res.why = "valid_round")
         => r.res.v = proposer(block[n].number, block[n].round.number)


\* C36: when the propose timeout fires with the round in step Propose, so
\* that the round's proposer is slashed, the log holds no proposal of that
\* proposer for the round.
C36_SilentProposerOnly ==
  [][\A n \in Nodes :
       (/\ RunTimeout(n)
        /\ EarliestTimeout(block[n].round) = "Propose"
        /\ block[n].round.step = "Propose")
       => get(block[n].log, block[n].round.number,
              proposer(block[n].number, block[n].round.number), "Propose") = NoData]_vars

(***************************************************************************)
(* C37: a machine without a validator id (lines 152-166 leave its step     *)
(* alone, lines 357-380 act only on the timeout of the current step).      *)
(***************************************************************************)
\* C37: an observer's step is Propose in every state; a Prevote or Precommit
\* timeout that fires on it only leaves the set of pending timeouts; and
\* within a height its round number changes only in the handling of a
\* message of a later round whose participation exceeds the fault
\* threshold, never in a timeout.
C37_ObserverProgress ==
  [][\A n \in Nodes :
       Observer(n) =>
         /\ block[n].round.step = "Propose"
         /\ block'[n].round.step = "Propose"
         /\ (RunTimeout(n) /\ EarliestTimeout(block[n].round) # "Propose") =>
              /\ block'[n] = [block[n] EXCEPT
                                !.round.timeouts = @ \ {EarliestTimeout(block[n].round)}]
              /\ queue'[n] = queue[n]
              /\ network'[n] = network[n]
              /\ alive'[n] = "running"
         /\ (/\ block'[n].number = block[n].number
             /\ block'[n].round.number # block[n].round.number) =>
              /\ ~RunTimeout(n)
              /\ last'[n].kind = "message"
              /\ block'[n].round.number > block[n].round.number
              /\ round_participation(block'[n].log, block'[n].round.number)
                   > fault_thresold]_vars

\* C37's case: the observer's Propose timeout of round 0 has fired, and its
\* Precommit timeout after precommits of weight threshold were logged; it
\* is still in round 0.
C37_Witness ==
  \E n \in Nodes :
    /\ Observer(n)
    /\ alive[n] = "running"
    /\ last[n].kind = "timeout"
    /\ block[n].number = 1
    /\ block[n].round.number = 0
    /\ block[n].round.timeouts = {}
    /\ HasRound(block[n].log, 0)
    /\ has_participation(block[n].log, 0, "Precommit")
    /\ has_participation(block[n].log, 0, "Prevote")

(***************************************************************************)
(* C38: the messages a machine makes of its own (broadcast, lines 152-166, *)
(* called from round, the timeout arms and message).                       *)
(***************************************************************************)
\* How many messages of height h, round r and the step are in n's queue.
OwnQueued(n, h, r, step) ==
  Cardinality({i \in DOMAIN queue[n] :
                 /\ queue[n][i].number = h
                 /\ queue[n][i].round = r
                 /\ queue[n][i].data.step = step})

\* 1 when n's log of its current height h holds a message of n's own for
\* round r and the step (a queued message that was handled), else 0.
OwnLogged(n, h, r, step) ==
  IF /\ h = block[n].number
     /\ get(block[n].log, r, block[n].validator_id, step) # NoData
  THEN 1 ELSE 0

\* C38: for every height, round and step, a machine's queue and its log
\* together hold at most one message of its own: a machine makes at most one
\* Proposal, one Prevote and one Precommit per round of a height.
C38_OneVotePerStep ==
  \A n \in Nodes :
    /\ \A i \in DOMAIN queue[n] : queue[n][i].sender = block[n].validator_id
    /\ \A h \in 1 .. (MaxHeight + 1), r \in 0 .. (MaxRound + 1), step \in Steps :
         OwnQueued(n, h, r, step) + OwnLogged(n, h, r, step) <= 1

\* C38's case: a machine that prevoted and precommitted in round 0 moved to
\* round 1, where it has prevoted and has its precommit in the queue.
C38_Witness ==
  \E n \in Nodes :
    /\ alive[n] = "running"
    /\ block[n].round.number = 1
    /\ OwnLogged(n, block[n].number, 0, "Prevote") = 1
    /\ OwnLogged(n, block[n].number, 0, "Precommit") = 1
    /\ OwnLogged(n, block[n].number, 1, "Prevote") = 1
    /\ OwnQueued(n, block[n].number, 1, "Precommit") = 1

(***************************************************************************)
(* C39: locked and valid (set in lines 598-634, cleared by reset) and the  *)
(* round number (round(), called by the jump, the Precommit timeout and    *)
(* reset).                                                                 *)
(***************************************************************************)
\* locked set implies valid set, of a round from locked's to the current
\* one, and for locked's id when of locked's round.
LockImpliesValid(b) ==
  b.locked # NoLocked =>
    /\ b.valid # NoValid
    /\ b.locked.round <= b.valid.round
    /\ b.valid.round <= b.round.number
    /\ b.locked.round = b.valid.round => b.locked.id = id(b.valid.block)

\* C39: in every state before and after a step, a machine's locked, when
\* set, comes with a valid of a round between locked's round and the current
\* round, for the same id when the rounds are equal; and no step lowers the
\* round number of a machine that stays in its height.
C39_LockImpliesValid ==
  [][\A n \in Nodes :
       /\ LockImpliesValid(block[n])
       /\ LockImpliesValid(block'[n])
       /\ block'[n].number = block[n].number =>
            block'[n].round.number >= block[n].round.number]_vars

\* C39's case: the machine locked on X in round 0 and, in round 2, past
\* step Prevote, set valid to the round's proposal Y without locking again.
C39_Witness ==
  \E n \in Nodes :
    /\ alive[n] = "running"
    /\ block[n].round.number = 2
    /\ block[n].locked = [round |-> 0, id |-> id("X")]
    /\ block[n].valid = [round |-> 2, block |-> "Y"]

(***************************************************************************)
(* C40: message_log.rs message_instances indexes the round map             *)
(* (`self.log[&round]`, line 65); message() calls it, directly or through  *)
(* has_consensus, for msg.round (line 493), the current round (lines 536,  *)
(* 610) and a proposal's valid round (line 584).                           *)
(***************************************************************************)
\* C40: no message a running machine can handle next, its own queued one or
\* an inbound one of its height, makes message() index the log at a round
\* that has no entry.
C40_LogQueriesInBounds ==
  \A n \in Live : \A f \in NextMessages(n) :
    LET r == message(f.m, f.msg)
    IN r.res.t = "Panic" => r.res.why # "log index"

====
